---- MODULE Spec2Model ----
(***************************************************************************)
(* A model of ts-morph-fixer.ts: the text preprocessor, the export-surface *)
(* builders (full-project and constrained), the named-export normalizer    *)
(* and the orchestration of the first pipeline stage.                      *)
(*                                                                         *)
(* File text is a sequence of tokens.  A token is an atom of the text that *)
(* the code's string operations never look inside: the newline, a blank,   *)
(* the triple backtick, the directive literal, and so on.  split, join,    *)
(* trim, startsWith, slice, splice and the regular expressions are         *)
(* computed on these sequences the way the code computes them on strings.  *)
(***************************************************************************)
EXTENDS Integers, Sequences, FiniteSets, TLC

\* ------------------------------------------------------------------ bounds
MaxLines == 4   \* lines of a file text drawn in PreInit
MaxRuns == 2    \* consecutive runs of the preprocessor over the same file
NumFiles == 3   \* files of a batch handed to fixProject
MaxModules == 3      \* modules of a project drawn from ModuleShapes
MaxBulkFiles == 22   \* modules of a project of many small modules
MaxBulkExports == 6  \* named exports of each of them
MaxImports == 1      \* import declarations of an importing module
MaxLogLines == 2     \* lines of the build log drawn from LogLineShapes
MaxArgs == 3         \* arguments of an invocation drawn from ArgShapes
MaxDiagnostics == 2  \* diagnostics of the source file drawn from DiagnosticShapes

\* ------------------------------------------------------------------ tokens
NL == "\n"
SP == " "
\* the triple backtick that opens or closes a fence
FENCE == "[bq][bq][bq]"
DQ == "\"use client\""
SQ == "'use client'"
SEMI == ";"
SHEBANG == "#!"
X == "x"
HOOK == "useState("

\* the token forms of the fourteen patterns of clientIndicators
clientIndicators ==
  { "useState(", "useEffect(", "onClick=", "react-hot-toast", "sonner",
    "@dnd-kit", "embla-carousel-react", "recharts", "cmdk", "input-otp",
    "react-day-picker", "react-hook-form", "next-themes", "vaul" }

\* ------------------------------------------------- string operations (JS)
IsSpace(t) == t \in {SP, NL}

\* String.prototype.split('\n'): never empty, split("") = [""]
RECURSIVE Split(_)
Split(s) ==
  IF \A i \in 1..Len(s) : s[i] # NL
    THEN <<s>>
    ELSE LET k == CHOOSE i \in 1..Len(s) :
                    s[i] = NL /\ \A j \in 1..(i-1) : s[j] # NL
         IN  <<SubSeq(s, 1, k-1)>> \o Split(SubSeq(s, k+1, Len(s)))

\* Array.prototype.join('\n')
RECURSIVE Join(_)
Join(lines) ==
  IF lines = <<>> THEN <<>>
  ELSE IF Len(lines) = 1 THEN lines[1]
  ELSE lines[1] \o <<NL>> \o Join(Tail(lines))

RECURSIVE TrimLeft(_)
TrimLeft(s) ==
  IF s # <<>> /\ IsSpace(s[1]) THEN TrimLeft(Tail(s)) ELSE s

RECURSIVE TrimRight(_)
TrimRight(s) ==
  IF s # <<>> /\ IsSpace(s[Len(s)]) THEN TrimRight(SubSeq(s, 1, Len(s)-1)) ELSE s

\* String.prototype.trim()
Trim(s) == TrimRight(TrimLeft(s))

\* String.prototype.startsWith(p)
StartsWith(s, p) == Len(s) >= Len(p) /\ SubSeq(s, 1, Len(p)) = p

\* Array.prototype.slice(a, b) for 0 <= a, 0 <= b: zero-based, b exclusive
Slice(seq, a, b) == SubSeq(seq, a + 1, IF b > Len(seq) THEN Len(seq) ELSE b)

\* Array.prototype.splice(at, 0, item): insertion before zero-based index at
Splice(seq, at, item) ==
  SubSeq(seq, 1, at) \o <<item>> \o SubSeq(seq, at + 1, Len(seq))

\* ----------------------------------------------------- stripMarkdownFences
\* lines.map((line, i) => line.trim().startsWith(FENCE) ? i : -1).filter(i => i !== -1)
fenceIndices(lines) ==
  LET mapped == [i \in 1..Len(lines) |->
                   IF StartsWith(Trim(lines[i]), <<FENCE>>) THEN i - 1 ELSE -1]
  IN  SelectSeq(mapped, LAMBDA i : i # -1)

\* a slip in the slice bounds: the closing fence line is kept
stripMarkdownFences_KeepsLastFence(content) ==
  LET lines == Split(content)
      fi == fenceIndices(lines)
  IN  IF Len(fi) >= 2 /\ fi[1] < fi[Len(fi)]
        THEN [content |-> Join(Slice(lines, fi[1] + 1, fi[Len(fi)] + 1)),
              wasChanged |-> TRUE]
        ELSE [content |-> content, wasChanged |-> FALSE]

stripMarkdownFences(content) ==
  LET lines == Split(content)
      fi == fenceIndices(lines)
  IN  IF Len(lines) = 0
        THEN [content |-> content, wasChanged |-> FALSE]
        ELSE IF Len(fi) >= 2 /\ fi[1] < fi[Len(fi)]
          THEN [content |-> Join(Slice(lines, fi[1] + 1, fi[Len(fi)])),
                wasChanged |-> TRUE]
          ELSE [content |-> content, wasChanged |-> FALSE]

\* ---------------------------------------------------------- needsUseClient
\* /^["']use client["'];?\s*$/m tested on s: a match starts at a line start p,
\* takes the literal, an optional semicolon and a run of blanks or newlines, and
\* ends at q, a line end.
DirectivePattern(s) ==
  \E p \in 1..Len(s) :
    /\ p = 1 \/ s[p-1] = NL
    /\ s[p] \in {DQ, SQ}
    /\ \E a \in {p + 1, p + 2} :
         /\ a = p + 2 => (p + 1 <= Len(s) /\ s[p+1] = SEMI)
         /\ \E q \in a..(Len(s) + 1) :
              /\ \A j \in a..(q-1) : IsSpace(s[j])
              /\ q = Len(s) + 1 \/ s[q] = NL

\* pattern.test(content) for one client indicator
IndicatorTest(pattern, s) == \E i \in 1..Len(s) : s[i] = pattern

\* the existing directive is looked for in the untrimmed text
needsUseClient_NoTrim(content) ==
  IF DirectivePattern(content) THEN FALSE
  ELSE \E pattern \in clientIndicators : IndicatorTest(pattern, content)

needsUseClient(content) ==
  IF DirectivePattern(Trim(content)) THEN FALSE
  ELSE \E pattern \in clientIndicators : IndicatorTest(pattern, content)

\* ------------------------------------------------------------ addUseClient
\* the interpreter line is not looked at
addUseClient_AlwaysFirst(content) ==
  Join(Splice(Split(content), 0, <<DQ, SEMI>>))

addUseClient(content) ==
  LET lines == Split(content)
      startIndex == IF Len(lines) > 0 /\ StartsWith(lines[1], <<SHEBANG>>)
                      THEN 1 ELSE 0
  IN  Join(Splice(lines, startIndex, <<DQ, SEMI>>))

\* ---------------------------------------------------------- preprocessFile
\* The result of one call on a file whose text on disk is `onDisk`; readOk and
\* writeOk say whether readFileSync and writeFileSync succeed.  threw: the
\* call raised to its caller; read: readFileSync returned; failed: an I/O error was raised inside it; ret:
\* its return value; disk: the text on disk afterwards; wrote: writeFileSync
\* completed; stripped, added: the two transformations applied; afterStrip,
\* final: the local `content` after the first and after the second of them.
PreprocessCall(onDisk, readOk, writeOk) ==
  IF ~readOk
    THEN \* readFileSync raised: the catch block returns false
         [threw |-> FALSE, read |-> FALSE, failed |-> TRUE, ret |-> FALSE,
          disk |-> onDisk, wrote |-> FALSE, stripped |-> FALSE, added |-> FALSE,
          afterStrip |-> <<>>, final |-> <<>>]
    ELSE
      LET s == stripMarkdownFences(onDisk)
          c1 == IF s.wasChanged THEN s.content ELSE onDisk
          need == needsUseClient(c1)
          c2 == IF need THEN addUseClient(c1) ELSE c1
          wasChanged == s.wasChanged \/ need
      IN  IF wasChanged /\ ~writeOk
            THEN \* writeFileSync raised: the catch block returns false
                 [threw |-> FALSE, read |-> TRUE, failed |-> TRUE, ret |-> FALSE,
                  disk |-> onDisk, wrote |-> FALSE, stripped |-> s.wasChanged,
                  added |-> need, afterStrip |-> c1, final |-> c2]
            ELSE [threw |-> FALSE, read |-> TRUE, failed |-> FALSE,
                  ret |-> wasChanged,
                  disk |-> IF wasChanged THEN c2 ELSE onDisk, wrote |-> wasChanged,
                  stripped |-> s.wasChanged, added |-> need,
                  afterStrip |-> c1, final |-> c2]

\* the file is written back whether or not it changed
preprocessFile_WritesAlways(onDisk, readOk, writeOk) ==
  LET o == PreprocessCall(onDisk, readOk, writeOk)
  IN  IF o.read /\ ~o.failed /\ ~o.wrote
        THEN IF writeOk THEN [o EXCEPT !.wrote = TRUE]
                        ELSE [o EXCEPT !.failed = TRUE]
        ELSE o

\* no try/catch: an I/O error reaches the caller
preprocessFile_NoCatch(onDisk, readOk, writeOk) ==
  LET o == PreprocessCall(onDisk, readOk, writeOk)
  IN  [o EXCEPT !.threw = o.failed]

preprocessFile(onDisk, readOk, writeOk) ==
  PreprocessCall(onDisk, readOk, writeOk)

\* ================================================================ variables
VARIABLES
  \* --- one file through the preprocessor, run after run (PreSpec)
  disk,             \* the file's text on disk
  run,              \* which run of the preprocessor this is
  prePc,            \* "ready": before the call; "returned": after it
  originalContent,  \* the text read by the last call
  last,             \* the outcome of the last call
  ioFailed          \* an I/O error was raised in this or an earlier run

preVars == <<disk, run, prePc, originalContent, last, ioFailed>>

VARIABLES
  \* --- stage 1 of fixProject over a batch of files (BatchSpec)
  fs,               \* file -> its text on disk
  fs0,              \* fs as the run found it
  filesToProcess,   \* the batch, in the order it is walked
  idx,              \* zero-based position of the for loop in filesToProcess
  preprocessedCount,
  rets,             \* the values preprocessFile returned, in call order
  errs,             \* whether each call raised an I/O error inside
  stage             \* "stage1", "stage2", "returned" or "rejected"

batchVars ==
  <<fs, fs0, filesToProcess, idx, preprocessedCount, rets, errs, stage>>

VARIABLES
  \* --- one build of the export surface (MapSpec)
  variant,     \* "full": buildExportMap of the full-project pipeline;
               \* "constrained": buildExportMap of the memory-limited one
  project,     \* project.getSourceFiles(), in order
  exportMap,   \* the Map, as the set of its entries [name, path, isDefault]
  mapPc,       \* "start", "scan" or "built"
  scanned,     \* the positions in project of the modules the build walks
  cands,       \* the insertions the walk attempts, in order
  tried,       \* how many of them were attempted
  cand         \* the last one attempted, and whether it was inserted

mapVars ==
  <<variant, project, exportMap, mapPc, scanned, cands, tried, cand>>

VARIABLES
  \* --- the named-export normalizer over an indexed project (NormSpec)
  modules,     \* the project's source files, as they are in memory
  modules0,    \* the same as they were indexed
  entry,       \* zero-based position of the loop in componentsToRefactor
  normPc       \* "loop", "done", or "rejected" when an exception left the pass

normVars == <<modules, modules0, entry, normPc>>

VARIABLES
  \* --- the diagnostic translator over one source file (DiagSpec)
  importDeclarations,   \* sourceFile.getImportDeclarations(), in order
  diagnostics,          \* sourceFile.getPreEmitDiagnostics(), as read on entry
  processed,            \* how many of them the loop has gone through
  diagnosticsResolved,  \* stats.diagnosticsResolved
  diagPc                \* "loop", "returned", or "reported" once the run
                        \* summary is printed

diagVars ==
  <<importDeclarations, diagnostics, processed, diagnosticsResolved, diagPc>>

VARIABLES
  \* --- the build-log resolver over an indexed project (LogSpec)
  sourceFiles,   \* project.getSourceFiles(), as they are in memory
  buildOutput,   \* the lines of the build log; <<>> when none was supplied
  handled,       \* how many of the log's export errors were gone through
  logPc          \* "loop" or "returned"

logVars == <<sourceFiles, buildOutput, handled, logPc>>

VARIABLES
  \* --- one invocation of the command line (MainSpec)
  argv,               \* process.argv from position 2 on
  mainPc,             \* "start", "stdin", "preprocess", "load", "index",
                      \* "translate", "log", "save", "cleanup" or "exited"
  exitCode,           \* the exit code, once exited
  preprocessedFiles,  \* the files preprocessFile has read
  stdinEnded,         \* standard input was read to its end into buildOutput
  targetFiles,        \* the files stage 1 walked
  fixedCount,         \* how many source files the translator loop went through
  mutated,            \* the source files changed in memory
  written,            \* those of them project.save() has written so far
  resolverGotLog,     \* the build-log resolver was given the log text
  indexHeld,          \* the project index is loaded and not released
  surfaceHeld,        \* the export surface holds the entries of this run
  outcome             \* "running", "failed", "timeout" or "completed"

mainVars ==
  <<argv, mainPc, exitCode, preprocessedFiles, stdinEnded, targetFiles,
    fixedCount, mutated, written, resolverGotLog, indexHeld, surfaceHeld,
    outcome>>

VARIABLES
  \* --- stage 2 of the full-project fixProject, pass by pass (PipeSpec)
  pass,     \* how many of the passes have been run
  pipePc    \* "running", "done", or "rejected" when a pass raised

pipeVars == <<pass, pipePc>>

vars == <<preVars, batchVars, mapVars, normVars, diagVars, logVars, mainVars, pipeVars>>

\* ------------------------------------------------------------------ PreSpec
\* the batch part of the state when no batch is modelled
BatchIdle ==
  /\ fs = <<>> /\ fs0 = <<>> /\ filesToProcess = <<>> /\ idx = 0
  /\ preprocessedCount = 0 /\ rets = <<>> /\ errs = <<>> /\ stage = "none"

\* the normalizer's part of the state when no project is modelled
NormIdle ==
  /\ modules = <<>> /\ modules0 = <<>> /\ entry = 0 /\ normPc = "none"

\* the translator's part of the state when no source file is modelled
DiagIdle ==
  /\ importDeclarations = <<>> /\ diagnostics = <<>> /\ processed = 0
  /\ diagnosticsResolved = 0 /\ diagPc = "none"

\* the build-log resolver's part of the state when no log is modelled
LogIdle ==
  /\ sourceFiles = <<>> /\ buildOutput = <<>> /\ handled = 0 /\ logPc = "none"

\* the command line's part of the state when no invocation is modelled
MainIdle ==
  /\ argv = <<>> /\ mainPc = "none" /\ exitCode = 0 /\ preprocessedFiles = {}
  /\ stdinEnded = FALSE /\ targetFiles = <<>> /\ fixedCount = 0
  /\ mutated = {} /\ written = {} /\ resolverGotLog = FALSE
  /\ indexHeld = FALSE /\ surfaceHeld = FALSE /\ outcome = "none"

\* the export-surface part of the state when no build is modelled
MapIdle ==
  /\ variant = "none" /\ project = <<>> /\ exportMap = {} /\ mapPc = "none"
  /\ scanned = <<>> /\ cands = <<>> /\ tried = 0 /\ cand = <<>>

\* the pipeline's part of the state when no pipeline is modelled
PipeIdle ==
  /\ pass = 0 /\ pipePc = "none"

\* the one-file part of the state when no single file is modelled
PreIdle ==
  /\ disk = <<>> /\ run = 0 /\ prePc = "none" /\ originalContent = <<>>
  /\ ioFailed = FALSE

LineShapes ==
  { <<X, FENCE>>,       \* code with backticks inside the line
    <<FENCE>>,          \* a fence marker
    <<SP, FENCE, X>>,   \* an indented fence marker with an info string
    <<HOOK>>,           \* a stateful-hook call
    <<DQ, SEMI>>,       \* the directive
    <<SP, SQ, SP>>,     \* the directive, single-quoted, indented, trailing blank
    <<SHEBANG, X>>,     \* an interpreter line
    <<DQ, X>> }         \* the literal followed by code

RECURSIVE LineSeqs(_)
LineSeqs(n) ==
  IF n = 0 THEN { <<>> }
  ELSE LET shorter == LineSeqs(n - 1)
       IN  shorter \cup { Append(ls, l) : ls \in { x \in shorter : Len(x) = n - 1 },
                                          l \in LineShapes }

Contents == { Join(ls) : ls \in LineSeqs(MaxLines) }

NoOutcome ==
  [threw |-> FALSE, read |-> FALSE, failed |-> FALSE, ret |-> FALSE, disk |-> <<>>,
   wrote |-> FALSE, stripped |-> FALSE, added |-> FALSE,
   afterStrip |-> <<>>, final |-> <<>>]

PreInit ==
  /\ disk \in Contents
  /\ run = 1
  /\ prePc = "ready"
  /\ originalContent = <<>>
  /\ last = NoOutcome
  /\ ioFailed = FALSE
  /\ BatchIdle
  /\ MapIdle
  /\ NormIdle
  /\ DiagIdle
  /\ LogIdle
  /\ MainIdle
  /\ PipeIdle

\* one call of preprocessFile on the file
PreCall ==
  /\ prePc = "ready"
  /\ \E readOk \in BOOLEAN, writeOk \in BOOLEAN :
       LET r == preprocessFile(disk, readOk, writeOk)
       IN  /\ last' = [r EXCEPT !.disk = <<>>]
           /\ disk' = r.disk
           /\ originalContent' = IF readOk THEN disk ELSE <<>>
           /\ ioFailed' = (ioFailed \/ r.failed)
  /\ prePc' = "returned"
  /\ UNCHANGED <<pipeVars, mainVars, logVars, diagVars, run, batchVars, mapVars, normVars>>

\* the tool is run again on the tree the previous run left
PreAgain ==
  /\ prePc = "returned"
  /\ run < MaxRuns
  /\ run' = run + 1
  /\ prePc' = "ready"
  /\ UNCHANGED <<pipeVars, mainVars, logVars, diagVars, disk, originalContent, last, ioFailed, batchVars, mapVars,
                 normVars>>

PreNext == PreCall \/ PreAgain

PreSpec == PreInit /\ [][PreNext]_vars

\* ------------------------------------------------- properties under PreSpec
\* the call returned after reading the file
Read == prePc = "returned" /\ last.read

\* the first token of the line that is not a blank is the fence marker
IsFenceLine(line) ==
  \E j \in 1..Len(line) : line[j] = FENCE /\ \A k \in 1..(j-1) : line[k] = SP

FenceLines(lines) == { i \in 1..Len(lines) : IsFenceLine(lines[i]) }

Min(S) == CHOOSE x \in S : \A y \in S : x <= y
Max(S) == CHOOSE x \in S : \A y \in S : x >= y

\* C2: stripMarkdownFences: with two or more fence lines the result is the
\* lines strictly between the first and the last of them, joined by newlines,
\* and wasChanged is true; with fewer the text is returned as it was and
\* wasChanged is false.
C2_FenceStripping ==
  Read =>
    LET lines == Split(originalContent)
        F == FenceLines(lines)
    IN  IF Cardinality(F) >= 2
          THEN /\ last.stripped
               /\ last.afterStrip =
                    Join([k \in 1..(Max(F) - Min(F) - 1) |-> lines[Min(F) + k]])
          ELSE /\ ~last.stripped
               /\ last.afterStrip = originalContent

\* three fence lines or more, and something between the first and the last
C2_Witness ==
  /\ Read
  /\ Cardinality(FenceLines(Split(originalContent))) >= 3
  /\ last.stripped
  /\ Len(last.afterStrip) >= 3

\* a line that is the directive: the literal in either quoting, then an
\* optional semicolon, then nothing but trailing blanks
IsDirectiveLine(line) ==
  LET t == TrimRight(line)
  IN  \E q \in {DQ, SQ} : t = <<q>> \/ t = <<q, SEMI>>

\* The text has the directive on a line of its own.  Blanks before the first
\* line's literal are not counted (the code trims the text before it looks).
HasDirectiveLine(text) ==
  LET lines == Split(Trim(text))
  IN  \E i \in 1..Len(lines) : IsDirectiveLine(lines[i])

UsesClientOnlyApi(text) ==
  \E i \in 1..Len(text) : text[i] \in clientIndicators

C4_DirectivePosition ==
  (Read /\ last.added) =>
    LET before == Split(last.afterStrip)
        after == Split(last.final)
        k == IF StartsWith(before[1], <<SHEBANG>>) THEN 2 ELSE 1
    IN  /\ Len(after) = Len(before) + 1
        /\ after[k] = <<DQ, SEMI>>
        /\ \A i \in 1..Len(before) :
             before[i] = IF i < k THEN after[i] ELSE after[i + 1]

\* inserted after an interpreter line, with further lines below it
C4_Witness ==
  /\ Read
  /\ last.added
  /\ StartsWith(Split(last.afterStrip)[1], <<SHEBANG>>)
  /\ Len(Split(last.final)) >= 4

\* C5: without an I/O error, preprocessFile writes the file if and only if
\* fence stripping or directive insertion changed the text, what it writes is
\* the changed text, and it returns true exactly then; a file to which
\* neither transformation applies is never written.
C5_WritesIffChanged ==
  prePc = "returned" =>
    /\ ~last.failed =>
         /\ last.wrote <=> (last.final # originalContent)
         /\ last.ret <=> (last.final # originalContent)
         /\ (last.final # originalContent) <=> (last.stripped \/ last.added)
         /\ disk = last.final
    /\ (~last.stripped /\ ~last.added) => ~last.wrote

\* both transformations applied, and the file written
C5_Witness ==
  /\ prePc = "returned"
  /\ ~last.failed
  /\ last.stripped /\ last.added
  /\ last.wrote /\ last.ret
  /\ disk # originalContent

\* C1 (the preprocessor's part): a second run over the tree a first run
\* produced rewrites no file, when no I/O error was raised in either run.
C1_SecondRunRewritesNothing ==
  (run = 2 /\ prePc = "returned" /\ ~ioFailed) =>
    (~last.wrote /\ ~last.ret /\ disk = originalContent)

\* ---------------------------------------------------------------- BatchSpec
\* fixProject, stage 1: the for loop over filesToProcess and the early return
BatchTexts ==
  { <<X, FENCE>>,
    Join(<< <<FENCE>>, <<HOOK>>, <<FENCE>> >>),
    <<HOOK>>,
    Join(<< <<DQ, SEMI>>, <<HOOK>> >>) }

BatchInit ==
  /\ \E n \in 0..NumFiles :
       /\ filesToProcess = [i \in 1..n |-> i]
       /\ fs \in [1..n -> BatchTexts]
  /\ fs0 = fs
  /\ idx = 0
  /\ preprocessedCount = 0
  /\ rets = <<>>
  /\ errs = <<>>
  /\ stage = "stage1"
  /\ PreIdle
  /\ last = NoOutcome
  /\ MapIdle
  /\ NormIdle
  /\ DiagIdle
  /\ LogIdle
  /\ MainIdle
  /\ PipeIdle

\* one iteration: if (preprocessFile(filePath)) preprocessedCount++.  The loop
\* has no handler of its own: an exception out of the call rejects fixProject.
BatchPreprocess ==
  /\ stage = "stage1"
  /\ idx < Len(filesToProcess)
  /\ \E readOk \in BOOLEAN, writeOk \in BOOLEAN :
       LET filePath == filesToProcess[idx + 1]
           r == preprocessFile(fs[filePath], readOk, writeOk)
       IN  IF r.threw
             THEN /\ stage' = "rejected"
                  /\ UNCHANGED <<fs, idx, preprocessedCount, rets, errs>>
             ELSE /\ fs' = [fs EXCEPT ![filePath] = r.disk]
                  /\ rets' = Append(rets, r.ret)
                  /\ errs' = Append(errs, r.failed)
                  /\ preprocessedCount' =
                       IF r.ret THEN preprocessedCount + 1 ELSE preprocessedCount
                  /\ idx' = idx + 1
                  /\ UNCHANGED stage
  /\ UNCHANGED <<pipeVars, mainVars, logVars, diagVars, fs0, filesToProcess, preVars, mapVars, normVars>>

\* the loop is over: return when there was nothing to process, else go on
BatchStage1Done ==
  /\ stage = "stage1"
  /\ idx = Len(filesToProcess)
  /\ stage' = IF Len(filesToProcess) = 0 THEN "returned" ELSE "stage2"
  /\ UNCHANGED <<pipeVars, mainVars, logVars, diagVars, fs, fs0, filesToProcess, idx, preprocessedCount, rets, errs,
                 preVars, mapVars, normVars>>

BatchNext == BatchPreprocess \/ BatchStage1Done

BatchSpec == BatchInit /\ [][BatchNext]_vars

\* the text preprocessing leaves on disk when nothing fails
Repaired(text) ==
  LET lines == Split(text)
      F == FenceLines(lines)
      inner == IF Cardinality(F) >= 2
                 THEN Join([k \in 1..(Max(F) - Min(F) - 1) |-> lines[Min(F) + k]])
                 ELSE text
  IN  IF ~HasDirectiveLine(inner) /\ UsesClientOnlyApi(inner)
        THEN IF StartsWith(inner, <<SHEBANG>>)
               THEN LET ls == Split(inner)
                    IN  Join(<<ls[1], <<DQ, SEMI>>>> \o Tail(ls))
               ELSE <<DQ, SEMI, NL>> \o inner
        ELSE inner

\* C6: an I/O error on one file is reported as false for that file and leaves
\* it as it was; the run is never rejected because of it, and every other file
\* of the batch is preprocessed.
C6_ErrorsStayLocal ==
  /\ stage # "rejected"
  /\ Len(rets) = idx /\ Len(errs) = idx
  /\ stage \in {"stage2", "returned"} => idx = Len(filesToProcess)
  /\ \A i \in 1..idx :
       LET f == filesToProcess[i]
       IN  IF errs[i]
             THEN ~rets[i] /\ fs[f] = fs0[f]
             ELSE fs[f] = Repaired(fs0[f]) /\ (rets[i] <=> fs[f] # fs0[f])

\* the first file failed, the files after it were repaired
C6_Witness ==
  /\ stage = "stage2"
  /\ Len(filesToProcess) >= 3
  /\ errs[1] /\ ~rets[1]
  /\ ~errs[2] /\ rets[2] /\ fs[2] # fs0[2]
  /\ ~errs[3] /\ rets[3]
  /\ preprocessedCount = 2

\* ================================================ the export-surface builders
\* Names (of path segments, files and symbols) are sequences of characters.
DEFAULT == <<"d", "e", "f", "a", "u", "l", "t">>
INDEX == <<"i", "n", "d", "e", "x">>
SRC == <<"s", "r", "c">>
NODE_MODULES == <<"n", "o", "d", "e", "_", "m", "o", "d", "u", "l", "e", "s">>

\* the two limits of the constrained builder
MaxScannedFiles == 20
MaxMapSize == 100

\* c.toUpperCase() for the characters the model's names start with
ToUpperCase(c) ==
  CASE c = "b" -> "B"
    [] c = "c" -> "C"
    [] c = "h" -> "H"
    [] c = "i" -> "I"
    [] c = "m" -> "M"
    [] c = "s" -> "S"
    [] OTHER -> c

\* s.charAt(0).toUpperCase() + s.slice(1)
Capitalize(name) ==
  IF name = <<>> THEN name ELSE <<ToUpperCase(name[1])>> \o Tail(name)

\* A source file: sf.dirs are the directory segments of getFilePath(), sf.base
\* is getBaseNameWithoutExtension(), sf.ext the extension, sf.decl is
\* isDeclarationFile(); sf.defaultSym is getDefaultExportSymbol() (present,
\* its getName(), and the getName() of getAliasedSymbol(), <<>> when it has
\* none); sf.exportSymbols are the getName() of getExportSymbols(), in order.

\* filePath.includes('/seg/')
PathIncludesDir(sf, seg) == \E i \in 1..Len(sf.dirs) : sf.dirs[i] = seg

\* `@/${relativePath.replace(/\/index$/, '')}` with relativePath the path after
\* the first '/src/', its .ts or .tsx extension removed; as a list of segments
ModuleSpecifier(sf) ==
  LET srcIndex == CHOOSE i \in 1..Len(sf.dirs) :
                    sf.dirs[i] = SRC /\ \A j \in 1..(i-1) : sf.dirs[j] # SRC
      last_ == IF sf.ext \in {"ts", "tsx"} THEN sf.base
               ELSE sf.base \o <<".">> \o <<sf.ext>>
      relativePath == SubSeq(sf.dirs, srcIndex + 1, Len(sf.dirs)) \o <<last_>>
  IN  IF Len(relativePath) >= 2 /\ relativePath[Len(relativePath)] = INDEX
        THEN <<"@">> \o SubSeq(relativePath, 1, Len(relativePath) - 1)
        ELSE <<"@">> \o relativePath

\* path.basename(path.dirname(sourceFile.getFilePath()))
ParentDirName(sf) == IF sf.dirs = <<>> THEN <<>> ELSE sf.dirs[Len(sf.dirs)]

\* the name that is 'default' is kept as the entry's name
DefaultExportNameFull_NoDerivation(sf) ==
  IF sf.defaultSym.aliased # <<>> THEN sf.defaultSym.aliased ELSE sf.defaultSym.name

\* lines 254-261: the name under which the default export is entered
DefaultExportNameFull(sf) ==
  LET exportName == IF sf.defaultSym.aliased # <<>> THEN sf.defaultSym.aliased
                    ELSE sf.defaultSym.name
  IN  IF exportName = DEFAULT
        THEN IF sf.base # INDEX THEN Capitalize(sf.base)
             ELSE Capitalize(ParentDirName(sf))
        ELSE exportName

\* lines 1086-1090: the same in the constrained builder
DefaultExportNameConstrained(sf) ==
  LET exportName == sf.defaultSym.name
  IN  IF exportName = DEFAULT THEN Capitalize(sf.base) ELSE exportName

\* the modules a build walks: positions in project, in order
EligibleFull(sfs) ==
  SelectSeq([i \in 1..Len(sfs) |-> i],
            LAMBDA i : /\ ~PathIncludesDir(sfs[i], NODE_MODULES)
                       /\ ~sfs[i].decl
                       /\ PathIncludesDir(sfs[i], SRC))

EligibleConstrained(sfs) ==
  SelectSeq([i \in 1..Len(sfs) |-> i],
            LAMBDA i : /\ ~PathIncludesDir(sfs[i], NODE_MODULES)
                       /\ ~sfs[i].decl
                       /\ PathIncludesDir(sfs[i], SRC)
                       /\ sfs[i].ext \in {"ts", "tsx"})

\* the limit on scanned modules is not applied
ScannedFiles_NoLimit(sfs, v) ==
  IF v = "full" THEN EligibleFull(sfs) ELSE EligibleConstrained(sfs)

ScannedFiles(sfs, v) ==
  IF v = "full" THEN EligibleFull(sfs)
  ELSE Slice(EligibleConstrained(sfs), 0, MaxScannedFiles)

\* the insertions one module makes the build attempt: its default export
\* first, then its export symbols other than 'default'
FileCandidates(sfs, i, v) ==
  LET sf == sfs[i]
      path == ModuleSpecifier(sf)
      def == IF sf.defaultSym.present
               THEN << [name |-> IF v = "full" THEN DefaultExportNameFull(sf)
                                 ELSE DefaultExportNameConstrained(sf),
                        path |-> path, isDefault |-> TRUE, file |-> i] >>
               ELSE <<>>
      named == SelectSeq(sf.exportSymbols, LAMBDA n : n # DEFAULT)
  IN  def \o [j \in 1..Len(named) |->
                [name |-> named[j], path |-> path, isDefault |-> FALSE, file |-> i]]

RECURSIVE AllCandidates(_, _, _)
AllCandidates(sfs, order, v) ==
  IF order = <<>> THEN <<>>
  ELSE FileCandidates(sfs, order[1], v) \o AllCandidates(sfs, Tail(order), v)

\* Map.prototype.has, Map.prototype.set
MapHas(map, name) == \E e \in map : e.name = name
MapSet(map, c) ==
  { e \in map : e.name # c.name }
    \cup { [name |-> c.name, path |-> c.path, isDefault |-> c.isDefault] }

\* the entry is set whether or not the name is there already
Insert_LastWriterWins(map, c, v) ==
  IF v = "full" \/ Cardinality(map) < MaxMapSize THEN MapSet(map, c) ELSE map

\* the size test lets one entry too many in
Insert_CapOffByOne(map, c, v) ==
  IF v = "full"
    THEN IF ~MapHas(map, c.name) THEN MapSet(map, c) ELSE map
    ELSE IF ~MapHas(map, c.name) /\ Cardinality(map) <= MaxMapSize
           THEN MapSet(map, c) ELSE map

\* if (!exportMap.has(name)) exportMap.set(...), with `&& exportMap.size < 100`
\* in the constrained builder
Insert(map, c, v) ==
  IF v = "full"
    THEN IF ~MapHas(map, c.name) THEN MapSet(map, c) ELSE map
    ELSE IF ~MapHas(map, c.name) /\ Cardinality(map) < MaxMapSize
           THEN MapSet(map, c) ELSE map

\* ------------------------------------------------------------------ MapSpec
P == <<"p">>
CMP == <<"c", "m", "p">>
BAR == <<"b", "a", "r">>
UBAR == <<"B", "a", "r">>
HERO == <<"h", "e", "r", "o">>
CARD == <<"C", "a", "r", "d">>

NoSym == [present |-> FALSE, name |-> <<>>, aliased |-> <<>>]
AnonymousDefault == [present |-> TRUE, name |-> DEFAULT, aliased |-> <<>>]
AliasDefault(n) == [present |-> TRUE, name |-> DEFAULT, aliased |-> n]

ModuleShapes ==
  { \* src/cmp/bar.tsx: export default function () {}
    [dirs |-> <<P, SRC, CMP>>, base |-> BAR, ext |-> "tsx", decl |-> FALSE,
     defaultSym |-> AnonymousDefault, exportSymbols |-> <<DEFAULT>>],
    \* src/cmp/bar/index.tsx: export default function () {}; export const Card
    [dirs |-> <<P, SRC, CMP, BAR>>, base |-> INDEX, ext |-> "tsx", decl |-> FALSE,
     defaultSym |-> AnonymousDefault, exportSymbols |-> <<DEFAULT, CARD>>],
    \* src/cmp/hero.tsx: const Bar = ...; export default Bar
    [dirs |-> <<P, SRC, CMP>>, base |-> HERO, ext |-> "tsx", decl |-> FALSE,
     defaultSym |-> AliasDefault(UBAR), exportSymbols |-> <<DEFAULT>>],
    \* src/card.ts: export { Bar, Card }
    [dirs |-> <<P, SRC>>, base |-> <<"c", "a", "r", "d">>, ext |-> "ts",
     decl |-> FALSE, defaultSym |-> NoSym, exportSymbols |-> <<UBAR, CARD>>],
    \* src/index.ts: export default class {}
    [dirs |-> <<P, SRC>>, base |-> INDEX, ext |-> "ts", decl |-> FALSE,
     defaultSym |-> AnonymousDefault, exportSymbols |-> <<DEFAULT>>],
    \* node_modules/cmp/bar.ts
    [dirs |-> <<P, NODE_MODULES, CMP>>, base |-> BAR, ext |-> "ts", decl |-> FALSE,
     defaultSym |-> NoSym, exportSymbols |-> <<UBAR>>],
    \* src/cmp/bar.d.ts
    [dirs |-> <<P, SRC, CMP>>, base |-> BAR, ext |-> "d.ts", decl |-> TRUE,
     defaultSym |-> NoSym, exportSymbols |-> <<CARD>>],
    \* cmp/hero.ts, outside src
    [dirs |-> <<P, CMP>>, base |-> HERO, ext |-> "ts", decl |-> FALSE,
     defaultSym |-> NoSym, exportSymbols |-> <<CARD>>] }

RECURSIVE ModuleSeqs(_)
ModuleSeqs(n) ==
  IF n = 0 THEN { <<>> }
  ELSE LET shorter == ModuleSeqs(n - 1)
       IN  shorter \cup { Append(ms, m) : ms \in { x \in shorter : Len(x) = n - 1 },
                                          m \in ModuleShapes }

Digit == <<"0", "1", "2", "3", "4", "5", "6", "7", "8", "9">>

\* src/lib/mNN.ts with n named exports eNN1, eNN2, ...
BulkModule(i, n) ==
  [dirs |-> <<P, SRC, <<"l", "i", "b">>>>,
   base |-> <<"m", Digit[(i \div 10) + 1], Digit[(i % 10) + 1]>>,
   ext |-> "ts", decl |-> FALSE, defaultSym |-> NoSym,
   exportSymbols |-> [j \in 1..n |->
      <<"e", Digit[(i \div 10) + 1], Digit[(i % 10) + 1], Digit[(j % 10) + 1]>>]]

BulkProjects ==
  { [i \in 1..m |-> BulkModule(i, n)] : m \in 0..MaxBulkFiles, n \in 0..MaxBulkExports }

NoCand == [name |-> <<>>, path |-> <<>>, isDefault |-> FALSE, file |-> 0,
           had |-> FALSE, size |-> 0, inserted |-> FALSE]

MapInit ==
  /\ variant \in {"full", "constrained"}
  /\ project \in ModuleSeqs(MaxModules) \cup BulkProjects
  /\ exportMap = {}
  /\ mapPc = "start"
  /\ scanned = <<>>
  /\ cands = <<>>
  /\ tried = 0
  /\ cand = NoCand
  /\ PreIdle
  /\ last = NoOutcome
  /\ BatchIdle
  /\ NormIdle
  /\ DiagIdle
  /\ LogIdle
  /\ MainIdle
  /\ PipeIdle

\* buildExportMap is entered: the map is cleared and the modules to walk chosen
MapStart ==
  /\ mapPc = "start"
  /\ exportMap' = {}
  /\ scanned' = ScannedFiles(project, variant)
  /\ cands' = AllCandidates(project, ScannedFiles(project, variant), variant)
  /\ tried' = 0
  /\ mapPc' = "scan"
  /\ UNCHANGED <<pipeVars, mainVars, logVars, diagVars, variant, project, cand, preVars, batchVars, normVars>>

\* the walk reaches its next default export or export symbol
MapInsert ==
  /\ mapPc = "scan"
  /\ tried < Len(cands)
  /\ LET c == cands[tried + 1]
         after == Insert(exportMap, c, variant)
     IN  /\ exportMap' = after
         /\ cand' = [name |-> c.name, path |-> c.path, isDefault |-> c.isDefault,
                     file |-> c.file, had |-> MapHas(exportMap, c.name),
                     size |-> Cardinality(exportMap),
                     inserted |-> (after # exportMap)]
  /\ tried' = tried + 1
  /\ UNCHANGED <<pipeVars, mainVars, logVars, diagVars, variant, project, mapPc, scanned, cands, preVars, batchVars,
                 normVars>>

\* the walk is over
MapBuilt ==
  /\ mapPc = "scan"
  /\ tried = Len(cands)
  /\ mapPc' = "built"
  /\ UNCHANGED <<pipeVars, mainVars, logVars, diagVars, variant, project, exportMap, scanned, cands, tried, cand, preVars,
                 batchVars, normVars>>

MapNext == MapStart \/ MapInsert \/ MapBuilt

MapSpec == MapInit /\ [][MapNext]_vars

\* ------------------------------------------------- properties under MapSpec
\* the positions of the attempts made so far that offered `name`
AttemptsOf(name) == { i \in 1..tried : cands[i].name = name }

\* C7: the surface holds at most one entry per name; an entry is bound to the
\* first module, in traversal order, that offered its name, with that module's
\* export kind; an entry is never removed or rebound while the build walks;
\* and in the full-project build every offered name has an entry at the end.
C7_FirstWriterWins ==
  /\ [](/\ \A e1 \in exportMap, e2 \in exportMap : e1.name = e2.name => e1 = e2
        /\ \A e \in exportMap :
             /\ AttemptsOf(e.name) # {}
             /\ LET first == cands[Min(AttemptsOf(e.name))]
                IN  /\ \A i \in AttemptsOf(e.name) : first.file <= cands[i].file
                    /\ e.path = ModuleSpecifier(project[first.file])
                    /\ e.isDefault = first.isDefault
        /\ (mapPc = "built" /\ variant = "full") =>
             \A i \in 1..Len(cands) : MapHas(exportMap, cands[i].name))
  /\ [][mapPc = "scan" => \A e \in exportMap : e \in exportMap']_vars

\* a name offered by two modules with different specifiers, bound to the first
C7_Witness ==
  /\ mapPc = "built"
  /\ \E i \in 1..Len(cands), j \in 1..Len(cands) :
       /\ i < j
       /\ cands[i].name = cands[j].name
       /\ cands[i].path # cands[j].path
       /\ cands[i].isDefault /\ ~cands[j].isDefault
       /\ [name |-> cands[i].name, path |-> cands[i].path, isDefault |-> TRUE]
            \in exportMap

\* the name the builder resolves for the default export before it looks at
\* the file name: line 254 in the full-project builder, line 1086 in the other
ResolvedDefaultName(sf, v) ==
  IF v = "full" /\ sf.defaultSym.aliased # <<>> THEN sf.defaultSym.aliased
  ELSE sf.defaultSym.name

\* C8: in both builders, a default export whose symbol name is 'default' is
\* entered under the file's base name capitalized, or, for an index file,
\* under the parent directory's name capitalized.
C8_DefaultNamingRule ==
  (mapPc \in {"scan", "built"} /\ tried > 0 /\ cand.isDefault
     /\ ResolvedDefaultName(project[cand.file], variant) = DEFAULT) =>
    LET sf == project[cand.file]
    IN  cand.name = IF sf.base # INDEX
                      THEN <<ToUpperCase(sf.base[1])>> \o Tail(sf.base)
                      ELSE <<ToUpperCase(sf.dirs[Len(sf.dirs)][1])>>
                             \o Tail(sf.dirs[Len(sf.dirs)])

\* C9: the constrained builder walks at most the first MaxScannedFiles
\* eligible modules, in their order; its surface never holds more than
\* MaxMapSize entries; and once it holds that many, an attempted insertion
\* leaves it exactly as it was.
C9_ConstrainedCaps ==
  /\ [](variant = "constrained" =>
          /\ Cardinality(exportMap) <= MaxMapSize
          /\ Len(scanned) <= MaxScannedFiles
          /\ mapPc # "start" =>
               LET eligible == { i \in 1..Len(project) :
                                   /\ NODE_MODULES \notin { project[i].dirs[d] :
                                                        d \in 1..Len(project[i].dirs) }
                                   /\ SRC \in { project[i].dirs[d] :
                                                  d \in 1..Len(project[i].dirs) }
                                   /\ ~project[i].decl
                                   /\ project[i].ext \in {"ts", "tsx"} }
               IN  /\ \A n \in 1..Len(scanned) :
                        /\ scanned[n] \in eligible
                        /\ Cardinality({ i \in eligible : i < scanned[n] }) = n - 1
                   /\ Len(scanned) < MaxScannedFiles =>
                        Len(scanned) = Cardinality(eligible))
  /\ [][(variant = "constrained" /\ mapPc = "scan"
          /\ Cardinality(exportMap) = MaxMapSize) => exportMap' = exportMap]_vars

\* more eligible modules than are walked, a full surface, and a new name dropped
C9_Witness ==
  /\ variant = "constrained"
  /\ mapPc = "built"
  /\ Len(scanned) = MaxScannedFiles
  /\ Len(EligibleConstrained(project)) > MaxScannedFiles
  /\ Cardinality(exportMap) = MaxMapSize
  /\ cand.size = MaxMapSize /\ ~cand.had /\ ~cand.inserted

\* ================================================ the named-export normalizer
\* A module of the indexed project:
\*   path              getFilePath(), as its segments
\*   exportAssignment  the module's export assignment: present; isExportEquals
\*                     (export = e); isIdentifier (Node.isIdentifier of its
\*                     expression); text (the expression's getText())
\*   hasSymbol         the expression has a symbol (getSymbolOrThrow succeeds)
\*   decls             getSymbol().getDeclarations(), in order: the kind of
\*                     each and whether it carries the export keyword
\*   imports           the import declarations: moduleSpecifier; target, the
\*                     position of the module it resolves to (0: none of the
\*                     project); defaultImport (<<>>: none); namedImports
FOO == <<"F", "o", "o">>
UHERO == <<"H", "e", "r", "o">>
LOWA == <<"a">>
ZED == <<"Z">>

\* the list enforceNamedExports walks
componentsToRefactor ==
  << <<"src", "components", "header.tsx">>,
     <<"src", "components", "footer.tsx">>,
     <<"src", "components", "hero.tsx">> >>

\* filePath.endsWith(relativePath), on whole segments
PathEndsWith(path, rel) ==
  Len(path) >= Len(rel) /\ SubSeq(path, Len(path) - Len(rel) + 1, Len(path)) = rel

\* project.getSourceFile(sf => sf.getFilePath().endsWith(relativePath)): the
\* position of the first match, 0 when there is none
GetSourceFile(sfs, rel) ==
  LET hits == { i \in 1..Len(sfs) : PathEndsWith(sfs[i].path, rel) }
  IN  IF hits = {} THEN 0 ELSE Min(hits)

\* the UTF-16 code unit of a character of the model's names
CharCode(c) ==
  CASE c = "B" -> 66 [] c = "C" -> 67 [] c = "F" -> 70 [] c = "H" -> 72
    [] c = "Z" -> 90 [] c = "a" -> 97 [] c = "d" -> 100 [] c = "e" -> 101
    [] c = "o" -> 111 [] c = "r" -> 114
    [] OTHER -> 120

\* a < b in the order Array.prototype.sort() uses by default
RECURSIVE StringLess(_, _)
StringLess(a, b) ==
  IF b = <<>> THEN FALSE
  ELSE IF a = <<>> THEN TRUE
  ELSE IF CharCode(a[1]) # CharCode(b[1]) THEN CharCode(a[1]) < CharCode(b[1])
  ELSE StringLess(Tail(a), Tail(b))

\* Array.prototype.sort() of an array of names
RECURSIVE SortNames(_)
SortNames(names) ==
  IF names = <<>> THEN <<>>
  ELSE LET least == CHOOSE i \in 1..Len(names) :
                      /\ \A j \in 1..Len(names) : ~StringLess(names[j], names[i])
                      /\ \A j \in 1..(i-1) : StringLess(names[i], names[j])
       IN  <<names[least]>>
             \o SortNames(SubSeq(names, 1, least - 1)
                            \o SubSeq(names, least + 1, Len(names)))

\* lines 198-204 on one import declaration: the default import goes and
\* addNamedImports appends the sorted list to the named imports it has
RewriteImport(d, exportName) ==
  [d EXCEPT !.defaultImport = <<>>,
            !.namedImports = d.namedImports
                               \o SortNames(d.namedImports \o <<exportName>>)]

\* the import declaration is a reference, under an import clause, to the
\* symbol the module at position at exports by default (an identifier without
\* a symbol has no references): a default import that
\* resolves to that module, or, when the exported identifier is itself a
\* default import of that module, the import that declares it
IsImportClauseReference(sfs, at, m, d) ==
  /\ sfs[at].hasSymbol
  /\ d.defaultImport # <<>>
  /\ \/ d.target = at
     \/ /\ m = at
        /\ sfs[at].decls # <<>>
        /\ sfs[at].decls[1].kind = "importClause"
        /\ d.defaultImport = sfs[at].exportAssignment.text

\* the import is rewritten whatever module it resolves to
RewriteReferences_AnySpecifier(sfs, at, exportName) ==
  [m \in 1..Len(sfs) |->
     [sfs[m] EXCEPT !.imports =
        [j \in 1..Len(sfs[m].imports) |->
           IF sfs[m].imports[j].defaultImport = exportName
             THEN RewriteImport(sfs[m].imports[j], exportName)
             ELSE sfs[m].imports[j]]]]

\* lines 193-206: every reference whose parent is an import clause with the
\* default import named exportName is rewritten
RewriteReferences(sfs, at, exportName) ==
  [m \in 1..Len(sfs) |->
     [sfs[m] EXCEPT !.imports =
        [j \in 1..Len(sfs[m].imports) |->
           IF /\ IsImportClauseReference(sfs, at, m, sfs[m].imports[j])
              /\ sfs[m].imports[j].defaultImport = exportName
             THEN RewriteImport(sfs[m].imports[j], exportName)
             ELSE sfs[m].imports[j]]]]

\* lines 209-215: the first declaration is marked exported when it is a
\* variable declaration of a variable statement, a function or a class
ExportDeclaration(sf) ==
  IF sf.decls # <<>> /\ sf.decls[1].kind \in {"variable", "function", "class"}
    THEN [sf EXCEPT !.decls[1].exported = TRUE]
    ELSE sf

\* line 218: exportAssignment.remove()
RemoveExportAssignment(sf) ==
  [sf EXCEPT !.exportAssignment =
     [present |-> FALSE, isExportEquals |-> FALSE, isIdentifier |-> FALSE,
      text |-> <<>>]]

\* the default-export statement is left in place
NormalizeEntry_KeepsDefault(sfs, rel) ==
  LET at == GetSourceFile(sfs, rel)
  IN  IF at = 0 \/ ~sfs[at].exportAssignment.present
           \/ sfs[at].exportAssignment.isExportEquals
           \/ ~sfs[at].exportAssignment.isIdentifier
        THEN [threw |-> FALSE, modules |-> sfs]
        ELSE LET rewritten ==
                   RewriteReferences(sfs, at, sfs[at].exportAssignment.text)
             IN  IF ~sfs[at].hasSymbol
                   THEN [threw |-> TRUE, modules |-> rewritten]
                   ELSE [threw |-> FALSE,
                         modules |-> [rewritten EXCEPT
                                        ![at] = ExportDeclaration(rewritten[at])]]

\* the expression of the export assignment is not tested for being an identifier
NormalizeEntry_AnyExpression(sfs, rel) ==
  LET at == GetSourceFile(sfs, rel)
  IN  IF at = 0 \/ ~sfs[at].exportAssignment.present
           \/ sfs[at].exportAssignment.isExportEquals
        THEN [threw |-> FALSE, modules |-> sfs]
        ELSE LET rewritten ==
                   RewriteReferences(sfs, at, sfs[at].exportAssignment.text)
             IN  IF ~sfs[at].hasSymbol
                   THEN [threw |-> TRUE, modules |-> rewritten]
                   ELSE [threw |-> FALSE,
                         modules |-> [rewritten EXCEPT
                            ![at] = RemoveExportAssignment(
                                      ExportDeclaration(rewritten[at]))]]

\* lines 179-219: one iteration of the loop over componentsToRefactor
NormalizeEntry(sfs, rel) ==
  LET at == GetSourceFile(sfs, rel)
  IN  IF at = 0 \/ ~sfs[at].exportAssignment.present
           \/ sfs[at].exportAssignment.isExportEquals
           \/ ~sfs[at].exportAssignment.isIdentifier
        THEN [threw |-> FALSE, modules |-> sfs]
        ELSE LET rewritten ==
                   RewriteReferences(sfs, at, sfs[at].exportAssignment.text)
             IN  IF ~sfs[at].hasSymbol
                   THEN \* getSymbolOrThrow raises
                        [threw |-> TRUE, modules |-> rewritten]
                   ELSE [threw |-> FALSE,
                         modules |-> [rewritten EXCEPT
                            ![at] = RemoveExportAssignment(
                                      ExportDeclaration(rewritten[at]))]]

\* ----------------------------------------------------------------- NormSpec
NoAssignment ==
  [present |-> FALSE, isExportEquals |-> FALSE, isIdentifier |-> FALSE,
   text |-> <<>>]
DefaultIdentifier(n) ==
  [present |-> TRUE, isExportEquals |-> FALSE, isIdentifier |-> TRUE, text |-> n]

Decl(kind) == [kind |-> kind, exported |-> FALSE]

HEADER_SPECIFIER == "@/components/header"
HERO_SPECIFIER == "@/components/hero"

Import(spec, target, def, named) ==
  [moduleSpecifier |-> spec, target |-> target, defaultImport |-> def,
   namedImports |-> named]

\* src/components/header.tsx, at position 1 of the project
HeaderShapes ==
  LET header(ea, sym, decls, imports) ==
        [path |-> <<"p", "src", "components", "header.tsx">>,
         exportAssignment |-> ea, hasSymbol |-> sym, decls |-> decls,
         imports |-> imports]
  IN  { \* function Foo() {}; export default Foo
        header(DefaultIdentifier(FOO), TRUE, <<Decl("function")>>, <<>>),
        \* const Foo = ...; export default Foo
        header(DefaultIdentifier(FOO), TRUE, <<Decl("variable")>>, <<>>),
        \* class Foo {}; export default Foo
        header(DefaultIdentifier(FOO), TRUE, <<Decl("class")>>, <<>>),
        \* interface Foo {}; const Foo = ...; export default Foo
        header(DefaultIdentifier(FOO), TRUE,
               <<Decl("interface"), Decl("variable")>>, <<>>),
        \* const Foo = ...; type Foo = ...; export default Foo
        header(DefaultIdentifier(FOO), TRUE,
               <<Decl("variable"), Decl("typeAlias")>>, <<>>),
        \* import Foo from "lib"; export default Foo
        header(DefaultIdentifier(FOO), TRUE, <<Decl("importClause")>>,
               <<Import("lib", 0, FOO, <<>>)>>),
        \* export default Foo, with no Foo in scope
        header(DefaultIdentifier(FOO), FALSE, <<>>, <<>>),
        \* export default memo(Foo)
        header([present |-> TRUE, isExportEquals |-> FALSE,
                isIdentifier |-> FALSE, text |-> <<"m", "(", "F", ")">>],
               FALSE, <<>>, <<>>),
        \* export = Foo
        header([present |-> TRUE, isExportEquals |-> TRUE,
                isIdentifier |-> TRUE, text |-> FOO],
               TRUE, <<Decl("function")>>, <<>>),
        \* export function Foo() {}, no export assignment
        header(NoAssignment, FALSE, <<>>, <<>>) }

\* src/components/hero.tsx, at position 2 of the project
HeroShapes ==
  { \* function Hero() {}; export default Hero
    [path |-> <<"p", "src", "components", "hero.tsx">>,
     exportAssignment |-> DefaultIdentifier(UHERO), hasSymbol |-> TRUE,
     decls |-> <<Decl("function")>>, imports |-> <<>>],
    \* export function Hero() {}
    [path |-> <<"p", "src", "components", "hero.tsx">>,
     exportAssignment |-> NoAssignment, hasSymbol |-> FALSE,
     decls |-> <<>>, imports |-> <<>>] }

ImportShapes ==
  { Import(HEADER_SPECIFIER, 1, FOO, <<>>),          \* import Foo from header
    Import(HEADER_SPECIFIER, 1, FOO, <<ZED, LOWA>>), \* import Foo, { Z, a } from header
    Import("./header", 1, FOO, <<LOWA>>),            \* import Foo, { a } from "./header"
    Import(HEADER_SPECIFIER, 1, UBAR, <<>>),         \* import Bar from header
    Import(HEADER_SPECIFIER, 1, <<>>, <<FOO>>),      \* import { Foo } from header
    Import("lib", 0, FOO, <<>>),                     \* import Foo from "lib"
    Import(HERO_SPECIFIER, 2, UHERO, <<>>),          \* import Hero from hero
    Import(HERO_SPECIFIER, 2, FOO, <<>>) }           \* import Foo from hero

RECURSIVE ImportSeqs(_)
ImportSeqs(n) ==
  IF n = 0 THEN { <<>> }
  ELSE LET shorter == ImportSeqs(n - 1)
       IN  shorter \cup { Append(ds, d) : ds \in { x \in shorter : Len(x) = n - 1 },
                                          d \in ImportShapes }

\* a module that only imports
Importer(file, imports) ==
  [path |-> <<"p", "src", "app", file>>, exportAssignment |-> NoAssignment,
   hasSymbol |-> FALSE, decls |-> <<>>, imports |-> imports]

NormInit ==
  /\ \E h \in HeaderShapes, o \in HeroShapes,
        i1 \in ImportSeqs(MaxImports), i2 \in ImportSeqs(MaxImports) :
       modules = <<h, o, Importer("page.tsx", i1), Importer("layout.tsx", i2)>>
  /\ modules0 = modules
  /\ entry = 0
  /\ normPc = "loop"
  /\ PreIdle
  /\ last = NoOutcome
  /\ BatchIdle
  /\ MapIdle
  /\ DiagIdle
  /\ LogIdle
  /\ MainIdle
  /\ PipeIdle

\* one iteration of the for loop of enforceNamedExports; the function has no
\* handler, so an exception ends the pass and rejects fixProject
NormStep ==
  /\ normPc = "loop"
  /\ entry < Len(componentsToRefactor)
  /\ LET r == NormalizeEntry(modules, componentsToRefactor[entry + 1])
     IN  /\ modules' = r.modules
         /\ normPc' = IF r.threw THEN "rejected" ELSE "loop"
         /\ entry' = IF r.threw THEN entry ELSE entry + 1
  /\ UNCHANGED <<pipeVars, mainVars, logVars, diagVars, modules0, preVars, batchVars, mapVars>>

\* the loop is over
NormDone ==
  /\ normPc = "loop"
  /\ entry = Len(componentsToRefactor)
  /\ normPc' = "done"
  /\ UNCHANGED <<pipeVars, mainVars, logVars, diagVars, modules, modules0, entry, preVars, batchVars, mapVars>>

NormNext == NormStep \/ NormDone

NormSpec == NormInit /\ [][NormNext]_vars

\* ------------------------------------------------- properties of NormSpec
ValueKinds == {"variable", "function", "class"}

\* the allow-listed modules the pass found, by position in the project
Normalized ==
  { GetSourceFile(modules0, componentsToRefactor[e]) : e \in 1..entry } \ {0}

\* before the pass the module held: export default Foo, with Foo a variable,
\* a function or a class declared in the module
DefaultExportsOwnValue(sf) ==
  /\ sf.exportAssignment.present
  /\ ~sf.exportAssignment.isExportEquals
  /\ sf.exportAssignment.isIdentifier
  /\ \E k \in 1..Len(sf.decls) : sf.decls[k].kind \in ValueKinds

\* the module exports, by name, the value it exported by default
ExportsByName(sf) ==
  \E k \in 1..Len(sf.decls) :
    sf.decls[k].kind \in ValueKinds /\ sf.decls[k].exported

\* the import declaration imports name, as a named import, and has no default
\* import left
ImportsByName(d, name) ==
  /\ d.defaultImport = <<>>
  /\ \E k \in 1..Len(d.namedImports) : d.namedImports[k] = name

\* C10: once the normalizer has run, every allow-listed module that held
\* `export default Foo`, Foo being a variable, function or class declared in
\* the module, exports Foo by name and has no default-export statement, and
\* every import declaration that default-imported Foo from it imports Foo by
\* name from the same specifier.
C10_NamedExportNormalized ==
  normPc = "done" =>
    \A at \in Normalized :
      DefaultExportsOwnValue(modules0[at]) =>
        /\ ExportsByName(modules[at])
        /\ ~modules[at].exportAssignment.present
        /\ \A m \in 1..Len(modules0) : \A j \in 1..Len(modules0[m].imports) :
             LET d0 == modules0[m].imports[j]
                 d == modules[m].imports[j]
             IN  (d0.target = at
                    /\ d0.defaultImport = modules0[at].exportAssignment.text) =>
                   /\ ImportsByName(d, modules0[at].exportAssignment.text)
                   /\ d.moduleSpecifier = d0.moduleSpecifier

\* the names of a named-import list
NamesOf(names) == { names[k] : k \in 1..Len(names) }

\* the import declaration d0 was rewritten into d by the normalizer
Rewritten(d0, d) == d0.defaultImport # <<>> /\ d.defaultImport = <<>>

\* C11: an import declaration that had named imports and was rewritten by the
\* normalizer holds the sorted union of the names it had and the converted
\* name, each name once.
C11_SortedUnionNoDuplicate ==
  \A m \in 1..Len(modules) : \A j \in 1..Len(modules[m].imports) :
    LET d0 == modules0[m].imports[j]
        d == modules[m].imports[j]
    IN  (Rewritten(d0, d) /\ d0.namedImports # <<>>) =>
          /\ NamesOf(d.namedImports)
               = NamesOf(d0.namedImports) \cup {d0.defaultImport}
          /\ \A a, b \in 1..Len(d.namedImports) :
               a < b => StringLess(d.namedImports[a], d.namedImports[b])

\* the module has no default-export statement, or the expression it exports by
\* default is not a bare identifier
NothingToNormalize(sf) ==
  \/ ~sf.exportAssignment.present
  \/ sf.exportAssignment.isExportEquals
  \/ ~sf.exportAssignment.isIdentifier

\* C12: the iteration of the normalizer on an allow-listed module that has no
\* default-export statement, or whose default-export expression is not a bare
\* identifier, changes neither that module nor any import of it (it changes
\* no module at all) and raises no error.
C12_NothingToNormalizeUntouched ==
  [][ (/\ normPc = "loop"
       /\ entry < Len(componentsToRefactor)
       /\ GetSourceFile(modules, componentsToRefactor[entry + 1]) # 0
       /\ NothingToNormalize(
            modules[GetSourceFile(modules, componentsToRefactor[entry + 1])]))
      => (modules' = modules /\ normPc' = "loop" /\ entry' = entry + 1) ]_vars

\* the iteration on header.tsx is over, header.tsx exports a call expression
\* by default and a module imports Foo by default from it
C12_Witness ==
  /\ entry >= 1
  /\ modules0[1].exportAssignment.present
  /\ ~modules0[1].exportAssignment.isExportEquals
  /\ ~modules0[1].exportAssignment.isIdentifier
  /\ \E m \in 1..Len(modules) : \E j \in 1..Len(modules[m].imports) :
       modules[m].imports[j].target = 1 /\ modules[m].imports[j].defaultImport = FOO

\* C13: an import declaration the normalizer rewrote resolves to an
\* allow-listed module that was normalized, and its default-import name was
\* the identifier that module exported by default; a default import of that
\* name from another specifier is never rewritten.
C13_RewriteNeedsSpecifierMatch ==
  \A m \in 1..Len(modules) : \A j \in 1..Len(modules[m].imports) :
    LET d0 == modules0[m].imports[j]
        d == modules[m].imports[j]
    IN  Rewritten(d0, d) =>
          \E at \in Normalized :
            /\ d0.target = at
            /\ d0.defaultImport = modules0[at].exportAssignment.text

\* ================================================ the diagnostic translator
\* Module specifiers and message arguments are sequences of characters.
SLASH == <<"/">>
AT_SLASH == <<"@", "/">>
AT_UP_SLASH == <<"@", "/", ".", ".", "/">>
COMPONENTS == <<"c", "o", "m", "p", "o", "n", "e", "n", "t", "s">>
HEADER == <<"h", "e", "a", "d", "e", "r">>
UHEADER == <<"H", "e", "a", "d", "e", "r">>
LIB == <<"l", "i", "b">>
UTILS == <<"u", "t", "i", "l", "s">>
CN == <<"c", "n">>

\* '@/components/header' and '@/lib/utils', the two specifiers the code names
HeaderModuleSpecifier == AT_SLASH \o COMPONENTS \o SLASH \o HEADER
UtilsModuleSpecifier == AT_SLASH \o LIB \o SLASH \o UTILS

\* s.includes(pat)
Includes(s, pat) ==
  \E i \in 0..(Len(s) - Len(pat)) : SubSeq(s, i + 1, i + Len(pat)) = pat

\* s.replace(pat, rep): the first occurrence only
ReplaceFirst(s, pat, rep) ==
  IF ~Includes(s, pat) THEN s
  ELSE LET i == Min({ k \in 0..(Len(s) - Len(pat)) :
                        SubSeq(s, k + 1, k + Len(pat)) = pat })
       IN  SubSeq(s, 1, i) \o rep \o SubSeq(s, i + Len(pat) + 1, Len(s))

\* the text of an export-surface path `@/a/b`, kept there as its segments
RECURSIVE JoinSegments(_)
JoinSegments(segs) ==
  IF segs = <<>> THEN <<>>
  ELSE IF Len(segs) = 1 THEN segs[1]
  ELSE segs[1] \o SLASH \o JoinSegments(Tail(segs))

SpecifierText(path) == <<"@">> \o SLASH \o JoinSegments(Tail(path))

\* The message templates of the compiler for the codes the translator looks
\* at, and one of the codes it ignores.  {0}, {1} are the arguments; in T2613
\* the module name {0} is printed between double quotes.
T2613 == "Module '{0}' has no default export. Did you mean to use 'import { {1} } from {0}' instead?"
T2304 == "Cannot find name '{0}'."
T2307 == "Cannot find module '{0}' or its corresponding type declarations."
T2322 == "Type '{0}' is not assignable to type '{1}'."

\* getMessageText() is a string built from a template, or a message chain
CHAIN == [template |-> "chain", args |-> <<>>]
IsString(messageText) == messageText # CHAIN

NoMatch == [matched |-> FALSE, importName |-> <<>>, specifier |-> <<>>]

\* messageText.match(/Did you mean to use 'import \{ ([^}]+) \} from "([^"]+)"'/)
MatchSuggestion(messageText) ==
  IF messageText.template = T2613
    THEN [matched |-> TRUE, importName |-> messageText.args[2],
          specifier |-> messageText.args[1]]
    ELSE NoMatch

\* messageText.match(/'([^']+)'/): the first text between single quotes
MatchQuoted(messageText) ==
  IF messageText.template \in {T2304, T2307, T2322}
    THEN [matched |-> TRUE, importName |-> messageText.args[1],
          specifier |-> <<>>]
    ELSE IF messageText.template = T2613
      THEN [matched |-> TRUE,
            importName |-> <<"\"">> \o messageText.args[1] \o <<"\"">>,
            specifier |-> <<>>]
      ELSE NoMatch

\* messageText.match(/Module '([^']+)'/): of the templates only T2613 holds
\* the text "Module '"; T2307 reads "Cannot find module '"
MatchModule(messageText) ==
  IF messageText.template = T2613
    THEN [matched |-> TRUE, importName |-> <<>>,
          specifier |-> <<"\"">> \o messageText.args[1] \o <<"\"">>]
    ELSE NoMatch

\* sourceFile.getImportDeclaration(pred): the position of the first import
\* declaration among hits, 0 when there is none
FirstOf(hits) == IF hits = {} THEN 0 ELSE Min(hits)

\* removeDefaultImport(); addNamedImport(importName)
DefaultToNamed(d, importName) ==
  [d EXCEPT !.defaultImport = <<>>,
            !.namedImports = Append(d.namedImports, importName)]

\* lines 304-327: CASE 1 of the full-project translator
Case1Full(decls, diagnostic) ==
  LET match == MatchSuggestion(diagnostic.messageText)
      moduleSpecifier == IF Includes(match.specifier, AT_SLASH)
                           THEN match.specifier ELSE HeaderModuleSpecifier
      at == FirstOf({ j \in 1..Len(decls) :
                        \/ Includes(decls[j].moduleSpecifier, HEADER)
                        \/ decls[j].moduleSpecifier = moduleSpecifier })
  IN  IF /\ diagnostic.code = 2613 /\ IsString(diagnostic.messageText)
         /\ match.matched
         /\ at # 0 /\ decls[at].defaultImport # <<>>
        THEN [decls EXCEPT ![at] = DefaultToNamed(decls[at], match.importName)]
        ELSE decls

\* lines 1131-1147: CASE 1 of the constrained translator
Case1Constrained(decls, diagnostic) ==
  LET match == MatchSuggestion(diagnostic.messageText)
      at == FirstOf({ j \in 1..Len(decls) :
                        decls[j].moduleSpecifier = match.specifier })
  IN  IF /\ diagnostic.code = 2613 /\ IsString(diagnostic.messageText)
         /\ match.matched
         /\ at # 0 /\ decls[at].defaultImport # <<>>
        THEN [decls EXCEPT ![at] = DefaultToNamed(decls[at], match.importName)]
        ELSE decls

\* exportMap.get(importName)
MapGet(map, name) == CHOOSE e \in map : e.name = name

\* the special case is looked up in the export map like any other name
Case2_NoSpecialCase(decls, map, diagnostic) ==
  LET match == MatchQuoted(diagnostic.messageText)
      importName == match.importName
  IN  IF diagnostic.code = 2304 /\ IsString(diagnostic.messageText)
         /\ match.matched /\ MapHas(map, importName)
        THEN Append(decls,
               [moduleSpecifier |-> SpecifierText(MapGet(map, importName).path),
                defaultImport |-> IF MapGet(map, importName).isDefault
                                    THEN importName ELSE <<>>,
                namedImports |-> IF MapGet(map, importName).isDefault
                                   THEN <<>> ELSE <<importName>>])
        ELSE decls

\* the import is added as a named import whatever the entry says
Case2_AlwaysNamed(decls, map, diagnostic) ==
  LET match == MatchQuoted(diagnostic.messageText)
      importName == match.importName
  IN  IF diagnostic.code = 2304 /\ IsString(diagnostic.messageText)
         /\ match.matched
        THEN IF importName = CN
               THEN Append(decls, [moduleSpecifier |-> UtilsModuleSpecifier,
                                   defaultImport |-> <<>>,
                                   namedImports |-> <<CN>>])
             ELSE IF MapHas(map, importName)
               THEN Append(decls,
                      [moduleSpecifier |->
                         SpecifierText(MapGet(map, importName).path),
                       defaultImport |-> <<>>,
                       namedImports |-> <<importName>>])
             ELSE decls
        ELSE decls

\* lines 329-355 and 1149-1171: CASE 2, the same in both translators
Case2(decls, map, diagnostic) ==
  LET match == MatchQuoted(diagnostic.messageText)
      importName == match.importName
  IN  IF diagnostic.code = 2304 /\ IsString(diagnostic.messageText)
         /\ match.matched
        THEN IF importName = CN
               THEN Append(decls, [moduleSpecifier |-> UtilsModuleSpecifier,
                                   defaultImport |-> <<>>,
                                   namedImports |-> <<CN>>])
             ELSE IF MapHas(map, importName)
               THEN Append(decls,
                      [moduleSpecifier |->
                         SpecifierText(MapGet(map, importName).path),
                       defaultImport |-> IF MapGet(map, importName).isDefault
                                           THEN importName ELSE <<>>,
                       namedImports |-> IF MapGet(map, importName).isDefault
                                          THEN <<>> ELSE <<importName>>])
             ELSE decls
        ELSE decls

\* lines 358-379: CASE 3, which only the full-project translator has
Case3Full(decls, diagnostic) ==
  LET match == MatchModule(diagnostic.messageText)
      modulePath == match.specifier
      at == FirstOf({ j \in 1..Len(decls) :
                        decls[j].moduleSpecifier = modulePath })
  IN  IF /\ diagnostic.code = 2307 /\ IsString(diagnostic.messageText)
         /\ match.matched
         /\ Includes(modulePath, AT_UP_SLASH)
         /\ at # 0
        THEN [decls EXCEPT ![at].moduleSpecifier =
                ReplaceFirst(modulePath, AT_UP_SLASH, AT_SLASH)]
        ELSE decls

\* one iteration of the loop over the diagnostics: lines 298-380 in the
\* full-project translator, lines 1125-1174 in the constrained one
TranslateDiagnostic(v, decls, map, diagnostic) ==
  IF v = "full"
    THEN Case3Full(Case2(Case1Full(decls, diagnostic), map, diagnostic),
                   diagnostic)
    ELSE Case2(Case1Constrained(decls, diagnostic), map, diagnostic)

\* line 1118: the constrained translator looks at the first ten diagnostics
MaxDiagnosticsPerFile == 10

\* the diagnostics the loop goes through
DiagnosticsToProcess(v, ds) ==
  IF v = "full" \/ Len(ds) <= MaxDiagnosticsPerFile THEN ds
  ELSE SubSeq(ds, 1, MaxDiagnosticsPerFile)

\* ----------------------------------------------------------------- DiagSpec
BarModuleSpecifier == AT_SLASH \o COMPONENTS \o SLASH \o BAR
\* the name the compiler prints for the module of src/components/bar.tsx
BarModuleName ==
  SLASH \o P \o SLASH \o SRC \o SLASH \o COMPONENTS \o SLASH \o BAR
TraversalSpecifier == AT_UP_SLASH \o LIB \o SLASH \o UTILS
DoubleTraversalSpecifier ==
  AT_UP_SLASH \o <<".", ".", "/">> \o LIB \o SLASH \o UTILS
GoneSpecifier == <<".", "/">> \o CARD

Diagnostic(code, template, args) ==
  [code |-> code, messageText |-> [template |-> template, args |-> args]]

DiagnosticShapes ==
  { Diagnostic(2613, T2613, <<BarModuleSpecifier, UBAR>>),
    Diagnostic(2613, T2613, <<BarModuleName, UBAR>>),
    Diagnostic(2304, T2304, <<CN>>),
    Diagnostic(2304, T2304, <<UBAR>>),
    Diagnostic(2304, T2304, <<CARD>>),
    Diagnostic(2307, T2307, <<TraversalSpecifier>>),
    Diagnostic(2307, T2307, <<DoubleTraversalSpecifier>>),
    Diagnostic(2307, T2307, <<GoneSpecifier>>),
    [code |-> 2322, messageText |-> CHAIN] }

RECURSIVE DiagnosticSeqs(_)
DiagnosticSeqs(n) ==
  IF n = 0 THEN { <<>> }
  ELSE LET shorter == DiagnosticSeqs(n - 1)
       IN  shorter \cup { Append(ds, d) : ds \in { x \in shorter : Len(x) = n - 1 },
                                          d \in DiagnosticShapes }

\* one name that many places of the file use without importing it
ManyDiagnostics ==
  [i \in 1..(MaxDiagnosticsPerFile + 1) |-> Diagnostic(2304, T2304, <<CN>>)]

ImportOf(spec, def, named) ==
  [moduleSpecifier |-> spec, defaultImport |-> def, namedImports |-> named]

\* the import declarations of the diagnosed source file
ImportLists ==
  { <<>>,
    \* import Bar from "@/components/bar"
    << ImportOf(BarModuleSpecifier, UBAR, <<>>) >>,
    \* import Header from "@/components/header"; import Bar from "@/components/bar"
    << ImportOf(HeaderModuleSpecifier, UHEADER, <<>>),
       ImportOf(BarModuleSpecifier, UBAR, <<>>) >>,
    \* import Bar from "@/components/bar"; import { Z } from "@/components/header"
    << ImportOf(BarModuleSpecifier, UBAR, <<>>),
       ImportOf(HeaderModuleSpecifier, <<>>, <<ZED>>) >>,
    \* import { a } from "@/components/bar"; import Bar from "@/components/bar"
    << ImportOf(BarModuleSpecifier, <<>>, <<LOWA>>),
       ImportOf(BarModuleSpecifier, UBAR, <<>>) >>,
    \* import Bar, { a } from "@/components/bar"
    << ImportOf(BarModuleSpecifier, UBAR, <<LOWA>>) >>,
    \* import { cn } from "@/../lib/utils"
    << ImportOf(TraversalSpecifier, <<>>, <<CN>>) >>,
    \* import { cn } from "@/../../lib/utils"; import Card from "./Card"
    << ImportOf(DoubleTraversalSpecifier, <<>>, <<CN>>),
       ImportOf(GoneSpecifier, CARD, <<>>) >> }

\* the export surface the translator reads
ExportSurfaces ==
  { {},
    { [name |-> UBAR, path |-> <<"@", COMPONENTS, BAR>>, isDefault |-> TRUE] },
    { [name |-> UBAR, path |-> <<"@", COMPONENTS, BAR>>, isDefault |-> FALSE],
      [name |-> CN, path |-> <<"@", COMPONENTS, BAR>>, isDefault |-> FALSE] } }

DiagInit ==
  /\ variant \in {"full", "constrained"}
  /\ exportMap \in ExportSurfaces
  /\ importDeclarations \in ImportLists
  /\ diagnostics \in DiagnosticSeqs(MaxDiagnostics) \cup {ManyDiagnostics}
  /\ processed = 0
  /\ diagnosticsResolved = 0
  /\ diagPc = "loop"
  /\ project = <<>> /\ mapPc = "built" /\ scanned = <<>> /\ cands = <<>>
  /\ tried = 0 /\ cand = <<>>
  /\ PreIdle
  /\ last = NoOutcome
  /\ BatchIdle
  /\ NormIdle
  /\ LogIdle
  /\ MainIdle
  /\ PipeIdle

\* one iteration of the loop of fixImportsBasedOnDiagnostics; neither
\* translator touches the statistics
DiagStep ==
  /\ diagPc = "loop"
  /\ processed < Len(DiagnosticsToProcess(variant, diagnostics))
  /\ importDeclarations' =
       TranslateDiagnostic(variant, importDeclarations, exportMap,
                           diagnostics[processed + 1])
  /\ processed' = processed + 1
  /\ UNCHANGED <<pipeVars, mainVars, logVars, diagnostics, diagnosticsResolved, diagPc, preVars, batchVars,
                 mapVars, normVars>>

\* the loop is over (at once when there is no diagnostic)
DiagReturn ==
  /\ diagPc = "loop"
  /\ processed = Len(DiagnosticsToProcess(variant, diagnostics))
  /\ diagPc' = "returned"
  /\ UNCHANGED <<pipeVars, mainVars, logVars, importDeclarations, diagnostics, processed,
                 diagnosticsResolved, preVars, batchVars, mapVars, normVars>>

\* fixProject returns this.stats and the run summary is printed
DiagReport ==
  /\ diagPc = "returned"
  /\ diagPc' = "reported"
  /\ UNCHANGED <<pipeVars, mainVars, logVars, importDeclarations, diagnostics, processed,
                 diagnosticsResolved, preVars, batchVars, mapVars, normVars>>

DiagNext == DiagStep \/ DiagReturn \/ DiagReport

DiagSpec == DiagInit /\ [][DiagNext]_vars

\* ------------------------------------------------- properties of DiagSpec
\* the loop is about to go through the diagnostic Current
Processing ==
  /\ diagPc = "loop"
  /\ processed < Len(DiagnosticsToProcess(variant, diagnostics))

Current == diagnostics[processed + 1]

\* the last diagnostic the loop went through
Previous == diagnostics[processed]

\* C14: going through a 2613 diagnostic that suggests
\* 'import { name } from "specifier"' changes no import declaration but one
\* that imports from that specifier and binds a default import, which is left
\* with name among its named imports and without default import; the first
\* import declaration from that specifier is so rewritten when it binds a
\* default import.
C14_DefaultImportFixedBySpecifier ==
  [][ (/\ Processing
       /\ Current.code = 2613
       /\ IsString(Current.messageText)
       /\ MatchSuggestion(Current.messageText).matched)
      => LET name == MatchSuggestion(Current.messageText).importName
             spec == MatchSuggestion(Current.messageText).specifier
             at == FirstOf({ j \in 1..Len(importDeclarations) :
                               importDeclarations[j].moduleSpecifier = spec })
         IN  /\ Len(importDeclarations') = Len(importDeclarations)
             /\ \A j \in 1..Len(importDeclarations) :
                  importDeclarations'[j] # importDeclarations[j] =>
                    /\ importDeclarations[j].moduleSpecifier = spec
                    /\ importDeclarations[j].defaultImport # <<>>
                    /\ importDeclarations'[j].moduleSpecifier = spec
                    /\ ImportsByName(importDeclarations'[j], name)
             /\ (at # 0 /\ importDeclarations[at].defaultImport # <<>>) =>
                  ImportsByName(importDeclarations'[at], name) ]_vars

\* C15: going through a 2304 diagnostic that names cn appends
\* import { cn } from "@/lib/utils", whatever the export surface holds.
C15_CnAlwaysFromUtils ==
  [][ (/\ Processing
       /\ Current.code = 2304
       /\ IsString(Current.messageText)
       /\ Current.messageText.args[1] = CN)
      => importDeclarations' =
           Append(importDeclarations,
                  ImportOf(UtilsModuleSpecifier, <<>>, <<CN>>)) ]_vars

\* cn was reported while the export surface binds cn to another module, and
\* the import from "@/lib/utils" is there
C15_Witness ==
  /\ processed >= 1
  /\ Previous.code = 2304
  /\ Previous.messageText.args[1] = CN
  /\ \E e \in exportMap : e.name = CN /\ SpecifierText(e.path) # UtilsModuleSpecifier
  /\ importDeclarations # <<>>
  /\ importDeclarations[Len(importDeclarations)]
       = ImportOf(UtilsModuleSpecifier, <<>>, <<CN>>)

\* C16: going through a 2304 diagnostic that names another identifier appends
\* one import declaration from the specifier of the identifier's entry in the
\* export surface, a default import when the entry is a default export and a
\* named import otherwise; without an entry the import declarations stay as
\* they are.
C16_MissingImportFromSurface ==
  [][ (/\ Processing
       /\ Current.code = 2304
       /\ IsString(Current.messageText)
       /\ Current.messageText.args[1] # CN)
      => LET name == Current.messageText.args[1]
         IN  IF \E e \in exportMap : e.name = name
               THEN \E e \in exportMap :
                      /\ e.name = name
                      /\ importDeclarations' =
                           Append(importDeclarations,
                                  IF e.isDefault
                                    THEN ImportOf(SpecifierText(e.path), name, <<>>)
                                    ELSE ImportOf(SpecifierText(e.path), <<>>,
                                                  <<name>>))
               ELSE importDeclarations' = importDeclarations ]_vars

\* Bar was reported, the export surface has it as a default export and the
\* default import of Bar was appended
C16_Witness ==
  /\ processed >= 1
  /\ Previous.code = 2304
  /\ Previous.messageText.args[1] = UBAR
  /\ \E e \in exportMap : e.name = UBAR /\ e.isDefault
  /\ importDeclarations # <<>>
  /\ importDeclarations[Len(importDeclarations)]
       = ImportOf(BarModuleSpecifier, UBAR, <<>>)

\* C17: going through a 2307 diagnostic whose specifier contains '@/../'
\* leaves the import declarations from that specifier with a specifier that
\* no longer contains it, and changes nothing else; for any other specifier
\* the import declarations stay as they are.  In both translators.
C17_TraversalCollapsed ==
  [][ (/\ Processing
       /\ Current.code = 2307
       /\ IsString(Current.messageText))
      => LET spec == Current.messageText.args[1]
         IN  IF Includes(spec, AT_UP_SLASH)
               THEN /\ Len(importDeclarations') = Len(importDeclarations)
                    /\ \A j \in 1..Len(importDeclarations) :
                         IF importDeclarations[j].moduleSpecifier = spec
                           THEN ~Includes(importDeclarations'[j].moduleSpecifier,
                                          AT_UP_SLASH)
                           ELSE importDeclarations'[j] = importDeclarations[j]
               ELSE importDeclarations' = importDeclarations ]_vars

\* C18: the resolved-diagnostics counter goes up by one with every diagnostic
\* that made the translator change the source file, and only then.
C18_CounterCountsMutations ==
  [][ Processing =>
        diagnosticsResolved' =
          IF importDeclarations' # importDeclarations
            THEN diagnosticsResolved + 1
            ELSE diagnosticsResolved ]_vars

\* ================================================ the build-log resolver
\* A source file here: filePath, its getFilePath() as text; hasDefaultExport,
\* whether getDefaultExportSymbol() is there; exportNames, the getName() of
\* getExportSymbols(); imports, its import declarations.
SRC_SLASH == SRC \o SLASH
DOT_TSX == <<".", "t", "s", "x">>

\* a line of the log: "Attempted import error: 'importName' is not exported
\* from 'modulePath'", or any other text
ExportError(importName, modulePath) ==
  [isExportError |-> TRUE, importName |-> importName, modulePath |-> modulePath]
OtherLine == [isExportError |-> FALSE, importName |-> <<>>, modulePath |-> <<>>]

\* buildOutput.match(/Attempted import error: '([^']+)' is not exported from
\* '([^']+)'/g), an empty list standing for null
ExportErrors(lines) == SelectSeq(lines, LAMBDA l : l.isExportError)

\* namedImports without its first specifier named importName
RECURSIVE RemoveNamed(_, _)
RemoveNamed(names, importName) ==
  IF names = <<>> THEN <<>>
  ELSE IF names[1] = importName THEN Tail(names)
  ELSE <<names[1]>> \o RemoveNamed(Tail(names), importName)

\* every import declaration from modulePath of the source file is looked at
FixImporter_EveryDeclaration(sf, importName, modulePath) ==
  [sf EXCEPT !.imports =
     [j \in 1..Len(sf.imports) |->
        IF /\ sf.imports[j].moduleSpecifier = modulePath
           /\ importName \in NamesOf(sf.imports[j].namedImports)
          THEN [sf.imports[j] EXCEPT
                  !.namedImports = RemoveNamed(@, importName),
                  !.defaultImport = importName]
          ELSE sf.imports[j]]]

\* lines 437-459: the body of the forEach over the project's source files
FixImporter(sf, importName, modulePath) ==
  LET at == FirstOf({ j \in 1..Len(sf.imports) :
                        sf.imports[j].moduleSpecifier = modulePath })
  IN  IF at # 0 /\ importName \in NamesOf(sf.imports[at].namedImports)
        THEN [sf EXCEPT !.imports[at].namedImports = RemoveNamed(@, importName),
                        !.imports[at].defaultImport = importName]
        ELSE sf

\* lines 414-461
fixImportExportMismatch(sfs, importName, modulePath) ==
  LET moduleFile ==
        FirstOf({ i \in 1..Len(sfs) :
                    Includes(sfs[i].filePath,
                             ReplaceFirst(modulePath, AT_SLASH, SRC_SLASH)) })
  IN  IF moduleFile = 0 THEN sfs
      ELSE IF /\ sfs[moduleFile].hasDefaultExport
              /\ importName \notin NamesOf(sfs[moduleFile].exportNames)
        THEN [i \in 1..Len(sfs) |-> FixImporter(sfs[i], importName, modulePath)]
        ELSE sfs

\* ------------------------------------------------------------------ LogSpec
BarChartModuleName == BarModuleName \o <<"-", "c", "h", "a", "r", "t">>
CardModuleSpecifier == AT_SLASH \o COMPONENTS \o SLASH \o CARD

SourceFile(filePath, hasDefault, exportNames, imports) ==
  [filePath |-> filePath, hasDefaultExport |-> hasDefault,
   exportNames |-> exportNames, imports |-> imports]

\* src/components/bar.tsx
BarShapes ==
  { \* export default function Bar() {}
    SourceFile(BarModuleName \o DOT_TSX, TRUE, <<DEFAULT>>, <<>>),
    \* export function Bar() {}; export default Bar
    SourceFile(BarModuleName \o DOT_TSX, TRUE, <<DEFAULT, UBAR>>, <<>>),
    \* export function Bar() {}
    SourceFile(BarModuleName \o DOT_TSX, FALSE, <<UBAR>>, <<>>) }

\* the source files indexed before bar.tsx: none, or src/components/bar-chart.tsx
\* with a named export only
EarlierShapes ==
  { <<>>,
    << SourceFile(BarChartModuleName \o DOT_TSX, FALSE, <<CARD>>, <<>>) >> }

\* the import declarations of a module that uses Bar
ImporterLists ==
  { <<>>,
    \* import { Bar } from "@/components/bar"
    << ImportOf(BarModuleSpecifier, <<>>, <<UBAR>>) >>,
    \* import { a, Bar } from "@/components/bar"
    << ImportOf(BarModuleSpecifier, <<>>, <<LOWA, UBAR>>) >>,
    \* import { a } from "@/components/bar"; import { Bar } from "@/components/bar"
    << ImportOf(BarModuleSpecifier, <<>>, <<LOWA>>),
       ImportOf(BarModuleSpecifier, <<>>, <<UBAR>>) >>,
    \* import Bar from "@/components/bar"
    << ImportOf(BarModuleSpecifier, UBAR, <<>>) >>,
    \* import Z, { Bar } from "@/components/bar"
    << ImportOf(BarModuleSpecifier, ZED, <<UBAR>>) >>,
    \* import { Bar } from "@/components/header"; import { Bar } from "@/components/bar"
    << ImportOf(HeaderModuleSpecifier, <<>>, <<UBAR>>),
       ImportOf(BarModuleSpecifier, <<>>, <<UBAR>>) >> }

LogLineShapes ==
  { ExportError(UBAR, BarModuleSpecifier),
    ExportError(LOWA, BarModuleSpecifier),
    ExportError(CARD, CardModuleSpecifier),
    OtherLine }

RECURSIVE LogLineSeqs(_)
LogLineSeqs(n) ==
  IF n = 0 THEN { <<>> }
  ELSE LET shorter == LogLineSeqs(n - 1)
       IN  shorter \cup { Append(ls, l) : ls \in { x \in shorter : Len(x) = n - 1 },
                                          l \in LogLineShapes }

LogInit ==
  /\ \E earlier \in EarlierShapes, bar \in BarShapes,
        i1 \in ImporterLists, i2 \in ImporterLists :
       sourceFiles =
         earlier \o
         << bar,
            SourceFile(SLASH \o P \o SLASH \o SRC_SLASH \o <<"a">> \o DOT_TSX,
                       FALSE, <<>>, i1),
            SourceFile(SLASH \o P \o SLASH \o SRC_SLASH \o <<"b">> \o DOT_TSX,
                       FALSE, <<>>, i2) >>
  /\ buildOutput \in LogLineSeqs(MaxLogLines)
  /\ handled = 0
  /\ logPc = "loop"
  /\ PreIdle
  /\ last = NoOutcome
  /\ BatchIdle
  /\ MapIdle
  /\ NormIdle
  /\ DiagIdle
  /\ MainIdle
  /\ PipeIdle

\* lines 399-407: one iteration of the loop over the export errors of the log
LogFix ==
  /\ logPc = "loop"
  /\ handled < Len(ExportErrors(buildOutput))
  /\ LET error == ExportErrors(buildOutput)[handled + 1]
     IN  sourceFiles' =
           fixImportExportMismatch(sourceFiles, error.importName,
                                   error.modulePath)
  /\ handled' = handled + 1
  /\ UNCHANGED <<pipeVars, mainVars, buildOutput, logPc, preVars, batchVars, mapVars, normVars,
                 diagVars>>

\* fixNextJsBuildErrors returns: at once without a log (line 392) or without
\* an export error in it, else after the loop
LogReturn ==
  /\ logPc = "loop"
  /\ handled = Len(ExportErrors(buildOutput))
  /\ logPc' = "returned"
  /\ UNCHANGED <<pipeVars, mainVars, sourceFiles, buildOutput, handled, preVars, batchVars, mapVars,
                 normVars, diagVars>>

LogNext == LogFix \/ LogReturn

LogSpec == LogInit /\ [][LogNext]_vars

\* ------------------------------------------------- properties of LogSpec
\* the source file a module path of the log stands for
ModuleFor(sfs, modulePath) ==
  FirstOf({ i \in 1..Len(sfs) :
              sfs[i].filePath =
                SLASH \o P \o SLASH
                  \o ReplaceFirst(modulePath, AT_SLASH, SRC_SLASH) \o DOT_TSX })

\* C19: going through the log entry 'X' is not exported from 'Y', the module
\* for Y having a default export and no named export X, leaves every import
\* declaration from Y that had X among its named imports without that named
\* import and with the default import X.
C19_NamedToDefaultEverywhere ==
  [][ (/\ logPc = "loop"
       /\ handled < Len(ExportErrors(buildOutput))
       /\ LET error == ExportErrors(buildOutput)[handled + 1]
              at == ModuleFor(sourceFiles, error.modulePath)
          IN  /\ at # 0
              /\ sourceFiles[at].hasDefaultExport
              /\ error.importName \notin NamesOf(sourceFiles[at].exportNames))
      => LET error == ExportErrors(buildOutput)[handled + 1]
         IN  \A m \in 1..Len(sourceFiles) : \A j \in 1..Len(sourceFiles[m].imports) :
               (/\ sourceFiles[m].imports[j].moduleSpecifier = error.modulePath
                /\ error.importName
                     \in NamesOf(sourceFiles[m].imports[j].namedImports))
               => /\ sourceFiles'[m].imports[j].namedImports
                       = RemoveNamed(sourceFiles[m].imports[j].namedImports,
                                     error.importName)
                  /\ sourceFiles'[m].imports[j].defaultImport = error.importName
                  /\ sourceFiles'[m].imports[j].moduleSpecifier = error.modulePath
    ]_vars

\* ================================================ the command line
\* The arguments an invocation is made of, and what the file system holds for
\* each: "proj" is a project directory (it has tsconfig.json and src/), the
\* two paths are files of its source tree.
BUILD_ERRORS == "--build-errors"
PROJ == "proj"
FILE_A == "proj/src/a.tsx"
FILE_B == "proj/src/b.ts"
\* a file that exists outside the source tree of the project
FILE_C == "notes/c.js"

ArgShapes == {PROJ, BUILD_ERRORS, FILE_A, FILE_B, FILE_C}

\* fs.existsSync(filePath), for a file that can be read
ExistsFile(filePath) == filePath \in {FILE_A, FILE_B, FILE_C}

\* filePath.endsWith('.tsx') || filePath.endsWith('.ts')
EndsWithTs(filePath) == filePath \in {FILE_A, FILE_B}

\* path.join(projectPath, "tsconfig.json") is there to be loaded
HasTsConfig(projectPath) == projectPath = PROJ

\* glob.sync over path.join(projectPath, 'src'), node_modules filtered out
ScanSourceTree(projectPath) ==
  IF projectPath = PROJ THEN <<FILE_A, FILE_B>> ELSE <<>>

\* the source files the project holds after addSourceFilesAtPaths
IndexedFiles(projectPath) ==
  { ScanSourceTree(projectPath)[i] : i \in 1..Len(ScanSourceTree(projectPath)) }

\* the files of a list that preprocessFile gets to read
ReadableOf(files) == { files[i] : i \in { j \in 1..Len(files) : ExistsFile(files[j]) } }

\* lines 889-890: projectDirectory and specificFiles of the full-project main
projectDirectory == IF argv = <<>> THEN "" ELSE argv[1]
specificFiles == IF argv = <<>> THEN <<>> ELSE Tail(argv)

\* lines 814-831: the files stage 1 of the full-project fixProject walks
FilesToProcessFull ==
  IF Len(specificFiles) > 0 THEN specificFiles
  ELSE ScanSourceTree(projectDirectory)

\* line 1348: config.specificFiles of the constrained main
SpecificFilesConstrained == SelectSeq(specificFiles, ExistsFile)

\* ----------------------------------------------------------------- MainSpec
RECURSIVE ArgSeqs(_)
ArgSeqs(n) ==
  IF n = 0 THEN { <<>> }
  ELSE LET shorter == ArgSeqs(n - 1)
       IN  shorter \cup { Append(as, a) : as \in { x \in shorter : Len(x) = n - 1 },
                                          a \in ArgShapes }

\* the elements of a list
Range(seq) == { seq[i] : i \in 1..Len(seq) }

\* lines 865-867 and 592-594: the source files pass 3 of the full-project
\* pipeline goes through
SourceFilesToFixFull ==
  IF Len(specificFiles) > 0 THEN specificFiles
  ELSE ScanSourceTree(projectDirectory)

\* line 1266: project.getSourceFiles() of the constrained pipeline, the files
\* of tsconfig.json and the specific files added at lines 1252-1256
SourceFilesToFixConstrained ==
  ScanSourceTree(projectDirectory)
    \o SelectSeq(SpecificFilesConstrained,
                 LAMBDA f : f \notin IndexedFiles(projectDirectory))

SourceFilesToFix ==
  IF variant = "full" THEN SourceFilesToFixFull ELSE SourceFilesToFixConstrained

MainInit ==
  /\ variant \in {"full", "constrained"}
  /\ argv \in ArgSeqs(MaxArgs)
  /\ mainPc = "start"
  /\ exitCode = 0
  /\ preprocessedFiles = {}
  /\ stdinEnded = FALSE
  /\ targetFiles = <<>>
  /\ fixedCount = 0
  /\ mutated = {}
  /\ written = {}
  /\ resolverGotLog = FALSE
  /\ indexHeld = FALSE
  /\ surfaceHeld = FALSE
  /\ outcome = "running"
  /\ project = <<>> /\ exportMap = {} /\ mapPc = "none" /\ scanned = <<>>
  /\ cands = <<>> /\ tried = 0 /\ cand = <<>>
  /\ PreIdle
  /\ last = NoOutcome
  /\ BatchIdle
  /\ NormIdle
  /\ DiagIdle
  /\ LogIdle
  /\ PipeIdle

\* process.exit(code), or the end of the process with nothing left to run
Exit(code, how) == mainPc' = "exited" /\ exitCode' = code /\ outcome' = how

\* the run goes on at the step named
Goto(pc) == mainPc' = pc /\ exitCode' = exitCode /\ outcome' = outcome

\* an exception leaves fixProject: the full-project main exits with code 1
\* (lines 913-916); the constrained fixProject runs cleanup in its finally
\* block before main exits with code 1 (lines 1211-1217, 1375-1379)
Throw ==
  IF variant = "full" THEN Exit(1, "failed")
  ELSE mainPc' = "cleanup" /\ exitCode' = exitCode /\ outcome' = "failed"

\* lines 907-918: runFixer
RunFixer ==
  IF projectDirectory = "" THEN Exit(1, "failed") ELSE Goto("preprocess")

\* the main block is entered: lines 893-905 of the full-project version,
\* lines 1334-1342 of the constrained one
MainStart ==
  /\ mainPc = "start"
  /\ IF variant = "full"
       THEN IF \E i \in 1..Len(argv) : argv[i] = BUILD_ERRORS
              THEN Goto("stdin")
              ELSE RunFixer
       ELSE IF Len(argv) < 2 THEN Exit(1, "failed") ELSE Goto("preprocess")
  /\ UNCHANGED <<pipeVars, argv, preprocessedFiles, stdinEnded, targetFiles, fixedCount,
                 mutated, written, resolverGotLog, indexHeld, surfaceHeld,
                 preVars, batchVars, mapVars, normVars, diagVars, logVars>>

\* lines 899-902: standard input ends and the fixer is run
MainStdinEnd ==
  /\ mainPc = "stdin"
  /\ stdinEnded' = TRUE
  /\ RunFixer
  /\ UNCHANGED <<pipeVars, argv, preprocessedFiles, targetFiles, fixedCount, mutated,
                 written, resolverGotLog, indexHeld, surfaceHeld, preVars,
                 batchVars, mapVars, normVars, diagVars, logVars>>

\* stage 1: lines 809-844 of the full-project fixProject, which returns when
\* there is no file to walk; lines 1221-1238 of the constrained one
MainPreprocess ==
  /\ mainPc = "preprocess"
  /\ IF variant = "full"
       THEN /\ targetFiles' = FilesToProcessFull
            /\ preprocessedFiles' = ReadableOf(FilesToProcessFull)
            /\ IF Len(FilesToProcessFull) = 0 THEN Exit(0, "completed")
               ELSE Goto("load")
       ELSE /\ targetFiles' = SpecificFilesConstrained
            /\ preprocessedFiles' =
                 { f \in ReadableOf(SpecificFilesConstrained) : EndsWithTs(f) }
            /\ Goto("load")
  /\ UNCHANGED <<pipeVars, argv, stdinEnded, fixedCount, mutated, written, resolverGotLog,
                 indexHeld, surfaceHeld, preVars, batchVars, mapVars, normVars,
                 diagVars, logVars>>

\* the project is created from tsconfig.json and the source files indexed
\* (lines 848-855, 1243-1257); a missing tsconfig.json raises
MainLoad ==
  /\ mainPc = "load"
  /\ IF HasTsConfig(projectDirectory)
       THEN indexHeld' = TRUE /\ Goto("index")
       ELSE indexHeld' = indexHeld /\ Throw
  /\ UNCHANGED <<pipeVars, argv, preprocessedFiles, stdinEnded, targetFiles, fixedCount,
                 mutated, written, resolverGotLog, surfaceHeld, preVars,
                 batchVars, mapVars, normVars, diagVars, logVars>>

\* passes 1 and 2 and the choice of the source files to fix: lines 857-867 of
\* the full-project pipeline, where getSourceFileOrThrow raises for a specific
\* file the project does not hold; line 1265 of the constrained one
MainIndex ==
  /\ mainPc = "index"
  /\ surfaceHeld' = TRUE
  /\ IF /\ variant = "full"
        /\ \E i \in 1..Len(specificFiles) :
             specificFiles[i] \notin IndexedFiles(projectDirectory)
       THEN Throw
       ELSE Goto("translate")
  /\ UNCHANGED <<pipeVars, argv, preprocessedFiles, stdinEnded, targetFiles, fixedCount,
                 mutated, written, resolverGotLog, indexHeld, preVars,
                 batchVars, mapVars, normVars, diagVars, logVars>>

\* one iteration of the loop of pass 3 (lines 869-871, 1267-1280): the
\* translator changes the source file, leaves it as it is, or raises; only
\* the constrained loop has a handler
MainTranslate ==
  /\ mainPc = "translate"
  /\ fixedCount < Len(SourceFilesToFix)
  /\ \E result \in {"changed", "unchanged", "raised"} :
       /\ mutated' = IF result = "changed"
                       THEN mutated \cup {SourceFilesToFix[fixedCount + 1]}
                       ELSE mutated
       /\ IF result = "raised" /\ variant = "full"
            THEN fixedCount' = fixedCount /\ Throw
            ELSE fixedCount' = fixedCount + 1 /\ Goto("translate")
  /\ UNCHANGED <<pipeVars, argv, preprocessedFiles, stdinEnded, targetFiles, written,
                 resolverGotLog, indexHeld, surfaceHeld, preVars, batchVars,
                 mapVars, normVars, diagVars, logVars>>

\* the loop of pass 3 is over
MainTranslated ==
  /\ mainPc = "translate"
  /\ fixedCount = Len(SourceFilesToFix)
  /\ IF variant = "full" THEN Goto("log") ELSE Goto("save")
  /\ UNCHANGED <<pipeVars, argv, preprocessedFiles, stdinEnded, targetFiles, fixedCount,
                 mutated, written, resolverGotLog, indexHeld, surfaceHeld,
                 preVars, batchVars, mapVars, normVars, diagVars, logVars>>

\* passes 4 and 5 of the full-project pipeline (lines 873-880): buildOutput is
\* the text read from standard input, undefined without the flag
MainLog ==
  /\ mainPc = "log"
  /\ resolverGotLog' = stdinEnded
  /\ Goto("save")
  /\ UNCHANGED <<pipeVars, argv, preprocessedFiles, stdinEnded, targetFiles, fixedCount,
                 mutated, written, indexHeld, surfaceHeld, preVars, batchVars,
                 mapVars, normVars, diagVars, logVars>>

\* project.save() (lines 883, 1289): the write of one changed source file
\* completes
MainSaveFile ==
  /\ mainPc = "save"
  /\ \E f \in mutated \ written : written' = written \cup {f}
  /\ Goto("save")
  /\ UNCHANGED <<pipeVars, argv, preprocessedFiles, stdinEnded, targetFiles, fixedCount,
                 mutated, resolverGotLog, indexHeld, surfaceHeld, preVars,
                 batchVars, mapVars, normVars, diagVars, logVars>>

\* project.save() resolves: the full-project run is complete, the constrained
\* one goes to its finally block
MainSaved ==
  /\ mainPc = "save"
  /\ mutated \subseteq written
  /\ IF variant = "full" THEN Exit(0, "completed")
     ELSE mainPc' = "cleanup" /\ exitCode' = exitCode /\ outcome' = "completed"
  /\ UNCHANGED <<pipeVars, argv, preprocessedFiles, stdinEnded, targetFiles, fixedCount,
                 mutated, written, resolverGotLog, indexHeld, surfaceHeld,
                 preVars, batchVars, mapVars, normVars, diagVars, logVars>>

\* cleanup of the constrained fixProject (lines 1297-1328) and the exit of
\* main after it (lines 1374, 1378)
MainCleanup ==
  /\ mainPc = "cleanup"
  /\ indexHeld' = FALSE
  /\ surfaceHeld' = FALSE
  /\ Exit(IF outcome = "failed" THEN 1 ELSE 0, outcome)
  /\ UNCHANGED <<pipeVars, argv, preprocessedFiles, stdinEnded, targetFiles, fixedCount,
                 mutated, written, resolverGotLog, preVars, batchVars, mapVars,
                 normVars, diagVars, logVars>>

\* the timer of the constrained main fires (lines 1358-1361); timers run
\* when the event loop is free, which in a run is while the writes of
\* project.save() are pending
MainTimeout ==
  /\ variant = "constrained"
  /\ mainPc = "save"
  /\ Exit(1, "timeout")
  /\ UNCHANGED <<pipeVars, argv, preprocessedFiles, stdinEnded, targetFiles, fixedCount,
                 mutated, written, resolverGotLog, indexHeld, surfaceHeld,
                 preVars, batchVars, mapVars, normVars, diagVars, logVars>>

MainNext ==
  \/ MainStart \/ MainStdinEnd \/ MainPreprocess \/ MainLoad \/ MainIndex
  \/ MainTranslate \/ MainTranslated \/ MainLog \/ MainSaveFile \/ MainSaved
  \/ MainCleanup \/ MainTimeout

MainSpec == MainInit /\ [][MainNext]_vars

\* ------------------------------------------------- properties of MainSpec
\* no argument of the invocation is the project path
ProjectPathMissing == \A i \in 1..Len(argv) : argv[i] # PROJ

\* C20: in an invocation without the project path argument, whatever else is
\* on the command line, no file is ever read by the preprocessor and the
\* process, once exited, has a non-zero exit code.
C20_MissingPathExitsBeforeWork ==
  ProjectPathMissing =>
    /\ preprocessedFiles = {}
    /\ mainPc = "exited" => exitCode # 0

\* ------------------------------------- further properties of the passes
\* C27: once the normalizer has removed the default export of a module, no
\* import declaration of the project that resolves to that module binds a
\* default import, whatever the local name it binds it to.
C27_NoDefaultImportLeft ==
  \A at \in Normalized :
    (/\ modules0[at].exportAssignment.present
     /\ ~modules0[at].exportAssignment.isExportEquals
     /\ ~modules[at].exportAssignment.present)
    => \A m \in 1..Len(modules) : \A j \in 1..Len(modules[m].imports) :
         modules[m].imports[j].target = at
           => modules[m].imports[j].defaultImport = <<>>

\* C28: going through a 2304 diagnostic that names an identifier an earlier
\* diagnostic of the same pass named already adds no further import
\* declaration: the identifier is imported once, not once per diagnostic.
C28_OneImportPerIdentifier ==
  [][ (/\ Processing
       /\ Current.code = 2304
       /\ IsString(Current.messageText)
       /\ \E k \in 1..processed : diagnostics[k] = Current)
      => importDeclarations' = importDeclarations ]_vars

\* C29: going through a log entry about X leaves, in every import
\* declaration, the default import it had under another name and every named
\* import other than X as they were.
C29_OtherBindingsPreserved ==
  [][ (/\ logPc = "loop"
       /\ handled < Len(ExportErrors(buildOutput)))
      => LET error == ExportErrors(buildOutput)[handled + 1]
         IN  \A m \in 1..Len(sourceFiles) : \A j \in 1..Len(sourceFiles[m].imports) :
               LET d == sourceFiles[m].imports[j]
                   e == sourceFiles'[m].imports[j]
               IN  /\ (d.defaultImport # <<>> /\ d.defaultImport # error.importName)
                        => e.defaultImport = d.defaultImport
                   /\ NamesOf(e.namedImports) \ {error.importName}
                        = NamesOf(d.namedImports) \ {error.importName} ]_vars

\* ------------------------------------- further properties of MainSpec
\* C21: in the full-project invocation with the project path and the flag
\* and no target file, standard input is read to its end before the pipeline
\* starts, stage 1 walks the files found by scanning the source tree, the
\* flag is not one of them, and a run that has exited gave the log to the
\* build-log resolver.
C21_BuildLogRun ==
  (variant = "full" /\ argv = <<PROJ, BUILD_ERRORS>>) =>
    /\ mainPc \notin {"start", "stdin"} => stdinEnded
    /\ mainPc \notin {"start", "stdin", "preprocess"}
         => targetFiles = ScanSourceTree(PROJ)
    /\ BUILD_ERRORS \notin Range(targetFiles)
    /\ mainPc = "exited" => resolverGotLog

\* C22: a run ended by the timeout has a non-zero exit code and has written
\* either none or all of the source files changed in memory.
C22_TimeoutAllOrNothing ==
  outcome = "timeout" =>
    /\ exitCode # 0
    /\ written = {} \/ written = mutated

\* C24: an iteration of the translator loop never makes the run fail, in
\* either pipeline: whatever happens in it, the loop goes on or the next
\* pass starts.
C24_TranslatorFailureCaught ==
  [][ mainPc = "translate" =>
        (outcome' # "failed" /\ mainPc' \in {"translate", "log", "save"}) ]_vars

\* a specific file of the invocation is not in the project index
HasTargetOutsideIndex ==
  /\ projectDirectory = PROJ
  /\ \E i \in 1..Len(specificFiles) :
       specificFiles[i] \notin IndexedFiles(projectDirectory)

\* C25: choosing the source files to fix does not make the run fail when a
\* specific file is not in the project index: the translator loop starts.
C25_MissingTargetSkipped ==
  [][ (mainPc = "index" /\ HasTargetOutsideIndex)
      => (outcome' # "failed" /\ mainPc' = "translate") ]_vars

\* C26: a constrained run that has exited, whatever the way, holds neither
\* the project index nor the export surface of the run.
C26_ReleasedOnEveryExit ==
  (variant = "constrained" /\ mainPc = "exited") =>
    ~indexHeld /\ ~surfaceHeld

\* ----------------------------------------------------------------- PipeSpec
\* Stage 2 of the full-project fixProject: the named-export normalizer, the
\* build of the export map and the diagnostic translator over one project.
APP == <<"a", "p", "p">>
PAGE == <<"p", "a", "g", "e">>

\* a path segment of a project module, as its text
SegmentText(seg) ==
  CASE seg = "p" -> P
    [] seg = "src" -> SRC
    [] seg = "components" -> COMPONENTS
    [] seg = "app" -> APP
    [] seg = "header.tsx" -> HEADER
    [] seg = "hero.tsx" -> HERO
    [] seg = "page.tsx" -> PAGE
    [] OTHER -> <<>>

\* What buildExportMap reads of a source file: its path, its default export
\* symbol and its export symbols.  `export default Foo` is an alias of Foo
\* when Foo resolves; the exported first declaration carries the name that
\* the export assignment of the indexed file named.
AsIndexed(sf, sf0) ==
  LET ea == sf.exportAssignment
      hasDefault == ea.present /\ ~ea.isExportEquals
      named == IF sf.decls # <<>> /\ sf.decls[1].exported
                 THEN <<sf0.exportAssignment.text>> ELSE <<>>
  IN  [dirs |-> [i \in 1..(Len(sf.path) - 1) |-> SegmentText(sf.path[i])],
       base |-> SegmentText(sf.path[Len(sf.path)]),
       ext |-> "tsx",
       decl |-> FALSE,
       defaultSym |-> IF ~hasDefault THEN NoSym
                      ELSE IF ea.isIdentifier /\ sf.hasSymbol
                        THEN AliasDefault(ea.text)
                      ELSE AnonymousDefault,
       exportSymbols |-> (IF hasDefault THEN <<DEFAULT>> ELSE <<>>) \o named]

\* lines 179-219: the loop of enforceNamedExports from entry `from` on; an
\* exception leaves the loop
RECURSIVE enforceNamedExports(_, _)
enforceNamedExports(sfs, from) ==
  IF from > Len(componentsToRefactor) THEN [threw |-> FALSE, modules |-> sfs]
  ELSE LET r == NormalizeEntry(sfs, componentsToRefactor[from])
       IN  IF r.threw THEN r ELSE enforceNamedExports(r.modules, from + 1)

\* lines 226-277: exportMap.clear(), then the walk over the source files
RECURSIVE InsertAll(_, _, _)
InsertAll(map, candidates, v) ==
  IF candidates = <<>> THEN map
  ELSE InsertAll(Insert(map, candidates[1], v), Tail(candidates), v)

buildExportMap(sfs, v) ==
  InsertAll({}, AllCandidates(sfs, ScannedFiles(sfs, v), v), v)

\* the export map is built first and the normalizer run after it
PassAt_MapFirst(i) ==
  CASE i = 1 -> "buildExportMap"
    [] i = 2 -> "enforceNamedExports"
    [] i = 3 -> "fixImportsBasedOnDiagnostics"
    [] OTHER -> "none"

\* lines 859-872: the passes of stage 2 up to the translator, in order
PassAt(i) ==
  CASE i = 1 -> "enforceNamedExports"
    [] i = 2 -> "buildExportMap"
    [] i = 3 -> "fixImportsBasedOnDiagnostics"
    [] OTHER -> "none"

\* src/components/hero.tsx, with one more shape: the component is called Foo
PipeHeroShapes ==
  HeroShapes \cup
    { [path |-> <<"p", "src", "components", "hero.tsx">>,
       exportAssignment |-> DefaultIdentifier(FOO), hasSymbol |-> TRUE,
       decls |-> <<Decl("variable")>>, imports |-> <<>>] }

\* the names the page uses without importing them
PipeDiagnostics ==
  { <<>>,
    << Diagnostic(2304, T2304, <<FOO>>) >>,
    << Diagnostic(2304, T2304, <<UHERO>>) >>,
    << Diagnostic(2304, T2304, <<FOO>>), Diagnostic(2304, T2304, <<UHERO>>) >> }

PipeInit ==
  /\ \E h \in HeaderShapes, o \in PipeHeroShapes, i1 \in ImportSeqs(MaxImports) :
       modules = <<h, o, Importer("page.tsx", i1)>>
  /\ modules0 = modules
  /\ entry = 0
  /\ normPc = "loop"
  /\ variant = "full"
  /\ project = <<>> /\ exportMap = {} /\ mapPc = "start"
  /\ scanned = <<>> /\ cands = <<>> /\ tried = 0 /\ cand = NoCand
  /\ importDeclarations = <<>>
  /\ diagnostics \in PipeDiagnostics
  /\ processed = 0 /\ diagnosticsResolved = 0 /\ diagPc = "loop"
  /\ pass = 0
  /\ pipePc = "running"
  /\ PreIdle
  /\ last = NoOutcome
  /\ BatchIdle
  /\ LogIdle
  /\ MainIdle

\* line 860: enforceNamedExports(project); it has no handler, so an exception
\* rejects fixProject
PipeNormalize ==
  /\ pipePc = "running"
  /\ PassAt(pass + 1) = "enforceNamedExports"
  /\ LET r == enforceNamedExports(modules, 1)
     IN  /\ modules' = r.modules
         /\ normPc' = IF r.threw THEN "rejected" ELSE "done"
         /\ pipePc' = IF r.threw THEN "rejected" ELSE "running"
  /\ entry' = Len(componentsToRefactor)
  /\ pass' = pass + 1
  /\ UNCHANGED <<mainVars, logVars, diagVars, modules0, preVars, batchVars, mapVars>>

\* line 863: buildExportMap(project) over the source files as they are in
\* memory at that moment
PipeBuildExportMap ==
  /\ pipePc = "running"
  /\ PassAt(pass + 1) = "buildExportMap"
  /\ project' = [i \in 1..Len(modules) |-> AsIndexed(modules[i], modules0[i])]
  /\ exportMap' = buildExportMap(project', variant)
  /\ scanned' = ScannedFiles(project', variant)
  /\ mapPc' = "built"
  /\ pass' = pass + 1
  /\ UNCHANGED <<pipePc, mainVars, logVars, diagVars, normVars, variant, cands, tried,
                 cand, preVars, batchVars>>

\* lines 870-872: fixImportsBasedOnDiagnostics over the page
PipeTranslate ==
  /\ pipePc = "running"
  /\ PassAt(pass + 1) = "fixImportsBasedOnDiagnostics"
  /\ LET RECURSIVE Walk(_, _)
         Walk(decls, k) ==
           IF k > Len(diagnostics) THEN decls
           ELSE Walk(TranslateDiagnostic(variant, decls, exportMap, diagnostics[k]),
                     k + 1)
     IN  importDeclarations' = Walk(importDeclarations, 1)
  /\ processed' = Len(diagnostics)
  /\ diagPc' = "returned"
  /\ pass' = pass + 1
  /\ pipePc' = "done"
  /\ UNCHANGED <<mainVars, logVars, diagnostics, diagnosticsResolved, normVars, mapVars,
                 preVars, batchVars>>

PipeNext == PipeNormalize \/ PipeBuildExportMap \/ PipeTranslate

PipeSpec == PipeInit /\ [][PipeNext]_vars

\* -------------------------------------------------------- properties of PipeSpec
\* the components the normalizer converted: the default export of an
\* identifier became the exported first declaration of that name
Converted ==
  { at \in 1..Len(modules) :
      /\ \E j \in 1..Len(componentsToRefactor) :
           PathEndsWith(modules0[at].path, componentsToRefactor[j])
      /\ modules0[at].exportAssignment.present
      /\ ~modules0[at].exportAssignment.isExportEquals
      /\ modules0[at].exportAssignment.isIdentifier
      /\ ~modules[at].exportAssignment.present
      /\ modules[at].decls # <<>> /\ modules[at].decls[1].exported }

\* C23: in a run of the full-project pipeline the export map is built, and
\* consulted by the translator, only once the normalizer has finished; for a
\* symbol the normalizer converted the map then holds a named entry
\* (isDefault false) under its name, no default entry of the converted module,
\* and the translator imports the name by name.
C23_SurfaceBuiltAfterNormalizer ==
  /\ mapPc = "built" => normPc = "done"
  /\ diagPc = "returned" => mapPc = "built"
  /\ mapPc = "built" =>
       \A at \in Converted :
         LET n == modules0[at].exportAssignment.text
         IN  /\ MapHas(exportMap, n)
             /\ ~MapGet(exportMap, n).isDefault
             /\ \A e \in exportMap :
                  e.path = ModuleSpecifier(project[at]) => ~e.isDefault
             /\ \A i \in 1..Len(importDeclarations) :
                  importDeclarations[i].defaultImport # n

\* the header's default export Foo was converted, the map was built and the
\* translator imported Foo by name from the header's module
C23_Witness ==
  /\ pipePc = "done"
  /\ 1 \in Converted
  /\ modules0[1].exportAssignment.text = FOO
  /\ [name |-> FOO, path |-> <<"@", COMPONENTS, HEADER>>, isDefault |-> FALSE]
       \in exportMap
  /\ \E i \in 1..Len(importDeclarations) :
       /\ importDeclarations[i].namedImports = <<FOO>>
       /\ importDeclarations[i].moduleSpecifier = HeaderModuleSpecifier

====
